---- MODULE Spec2Model ----
(***************************************************************************)
(* agy-top: the usage submission protocol of the dashboard (src/ui/run.ts) *)
(* and of the submit command (src/commands/submit.ts), which share the     *)
(* persisted submission cursor of the config store (src/utils/config.ts).  *)
(*                                                                         *)
(* The dashboard is one event loop: every handler (key press, timer        *)
(* callback) runs until its next await, so an action of this model is the  *)
(* code between two awaits.  The submit command runs in a process of its   *)
(* own against the same config store.  Time is counted in minutes.  What   *)
(* a handler only draws (isLoading, the leaderboard rows, the usage        *)
(* statistics, the leaderboard period) is not part of the state.           *)
(***************************************************************************)
EXTENDS Integers, Sequences, FiniteSets, TLC

VARIABLES
    authenticated,     \* config auth.token is set (isAuthenticated())
    rankMode,          \* options.rankMode of the dashboard
    loaded,            \* the dashboard's initial data load has finished
    snapshot,          \* state.snapshot: index into SnapshotTable, NullSnapshot = null
    previousSnapshot,  \* state.previousSnapshot
    currentView,       \* state.currentView
    lastSubmitTime,    \* state.lastSubmitTime: <<>> (null) or <<minute>>
    timerPc,           \* the refresh loop: "starting" (initial load), "waiting"
                       \* (timer armed), "fetching", "submitting", "stats"
                       \* (awaiting the usage statistics), or "hung" (its
                       \* fetch waits for an endpoint that does not respond)
    refreshKeys,       \* 'r' handlers awaiting fetchQuota
    cursor,            \* config lastSubmission: <<>> (undefined) or <<record>>
    inflight,          \* the submit requests awaiting their response, oldest first
    cli,               \* the submit command / submitUsage() invocation in progress
    clock,             \* Date.now(), in minutes
    ticks,             \* number of clock advances so far
    nsent,             \* number of submit requests sent so far
    event,             \* what the last step did to a submission: <<>>, or
                       \* <<kind, origin>> with kind "nothing_new", "sent", "ok",
                       \* "rejected" or "threw"
    ackedInput,        \* sum of the inputTokens of the acknowledged requests
    ackedOutput,       \* sum of the outputTokens of the acknowledged requests
    resetSeen,         \* some attempt found current used < cursor total
    ackedSnapshot,     \* the snapshot of the request whose acknowledgement wrote
                       \* the cursor; NullSnapshot: none written by this
                       \* process, or written by the submit command
    failed,            \* <<attempt>>: the last dashboard attempt that failed, while
                       \* the snapshot it used is still state.snapshot and no
                       \* attempt was made since; else <<>>
    error,             \* state.error: <<>> (null) or <<message>>
    leaderboardGets,   \* key handlers awaiting ApiClient.getLeaderboard
    statsKeys,         \* 'r' handlers awaiting the usage statistics
    crashed,           \* a render threw: the dashboard process has ended on
                       \* the uncaught exception
    detector,          \* a call of detectAntigravityServer() and its environment
    estimator,         \* a TokenEstimator fed with the percentages of one model
    fetcher,           \* a call of fetchQuota() and the response it meets
    server,            \* state.server (handle) and the endpoint at which the
                       \* language server listens (actual)
    config,            \* the config store: auth, apiUrl, webUrl, installationId
    http               \* the cached axios clients of a process (publicClient,
                       \* authClient), the requests it sent through them and
                       \* its login: "idle" (none started), "command" or
                       \* "library" (waiting for the callback), "profile"
                       \* (about to request the profile), "closed" (the
                       \* wait has ended and the local server was closed)

vars == <<authenticated, rankMode, loaded, snapshot, previousSnapshot, currentView,
          lastSubmitTime, timerPc, refreshKeys, cursor, inflight, cli, clock,
          ticks, nsent, event, ackedInput, ackedOutput, ackedSnapshot, resetSeen,
          failed, error, leaderboardGets, statsKeys, crashed>>

\* The components that are specified on their own (detector, estimator,
\* fetcher, the config store with the HTTP clients), and the language server
\* as the dashboard knows it.
componentVars == <<detector, estimator, fetcher, server, config, http>>

allVars == <<vars, componentVars>>

---------------------------------------------------------------------------
(* Bounds of the model *)

MaxSent == 2
MaxTicks == 1
MaxRefreshKeys == 1
MaxLeaderboardGets == 1

\* No further fetch is left unanswered once the clock has reached this minute.
MaxHangClock == 10

(* Program constants *)

NullSnapshot == 0
estimatedTokensPerModel == 50000
minInterval == 5
MinutesPerHour == 60

\* The headers timeout of the runtime's fetch (300 s), in minutes
headersTimeout == 5

\* The amounts by which the clock advances between two events (minutes).
TickSteps == {5, 60}

\* '0'.repeat(64)
ZeroChecksum == <<"0000000000000000000000000000000000000000000000000000000000000000">>

\* The quota snapshots fetchQuota may return: the tokenUsage credits, the
\* remainingPercentage of each model whose remainingFraction is a number
\* (models), and the number of models whose remainingFraction is not one, the
\* string "x" for instance: their remainingPercentage is NaN (nanModels).
\* The third is the first after more flow credits were spent and the quota
\* window of its first model refilled from 71 % to 99 %.  The fourth reports
\* more prompt credits available than the plan has in a month (105 %), the
\* fifth also a model with the remaining fraction 1.5; the sixth has a model
\* whose remaining fraction is not a number.
SnapshotTable ==
    << [promptMonthly |-> 1000, promptAvailable |-> 900,
        flowMonthly |-> 10000, flowAvailable |-> 9950, models |-> <<71, 100>>,
        nanModels |-> 0],
       [promptMonthly |-> 1000, promptAvailable |-> 1000,
        flowMonthly |-> 10000, flowAvailable |-> 3900, models |-> <<100>>,
        nanModels |-> 0],
       [promptMonthly |-> 1000, promptAvailable |-> 900,
        flowMonthly |-> 10000, flowAvailable |-> 9000, models |-> <<99, 100>>,
        nanModels |-> 0],
       [promptMonthly |-> 1000, promptAvailable |-> 1050,
        flowMonthly |-> 10000, flowAvailable |-> 3900, models |-> <<100>>,
        nanModels |-> 0],
       [promptMonthly |-> 1000, promptAvailable |-> 1050,
        flowMonthly |-> 10000, flowAvailable |-> 3900, models |-> <<150>>,
        nanModels |-> 0],
       [promptMonthly |-> 1000, promptAvailable |-> 900,
        flowMonthly |-> 10000, flowAvailable |-> 9950, models |-> <<100>>,
        nanModels |-> 1] >>

\* The snapshots of a month in which the credits are reset; those of a month
\* without a reset, in which a quota window refills, are 1 and 3
SnapshotIds == {1, 2}


\* What UsageCollector.collect() may return (token sums of the day's logs).
CollectedStats ==
    { [inputTokens |-> 0, outputTokens |-> 0, sessionCount |-> 0],
      [inputTokens |-> 120, outputTokens |-> 80, sessionCount |-> 2] }

DashboardOrigins == {"key_s", "auto_timer", "auto_key_r"}
AutoOrigins == {"auto_timer", "auto_key_r"}
CliOrigins == {"command", "library"}

Max(a, b) == IF a >= b THEN a ELSE b

---------------------------------------------------------------------------
(* doSubmit: current usage of a snapshot *)

\* Percentages p for which the double 50000 * ((100 - p) / 100) lies just below
\* the integer 500 * (100 - p), so that Math.floor yields one less.
FloatRoundsDown == {42, 43, 71}

\* Math.floor(estimatedTokensPerModel * ((100 - m.remainingPercentage) / 100))
TokensOfModel(p) ==
    (estimatedTokensPerModel * (100 - p)) \div 100
        - (IF p \in FloatRoundsDown THEN 1 ELSE 0)

RECURSIVE SumTokens(_)
SumTokens(models) ==
    IF models = <<>> THEN 0
    ELSE TokensOfModel(Head(models)) + SumTokens(Tail(models))

\* the sum over the models whose percentage is a number
modelBasedTokens(s) == SumTokens(SnapshotTable[s].models)

\* sum + Math.floor(NaN) is NaN, and so are Math.floor(NaN * 0.6) and
\* Math.max(creditsUsedPrompt, NaN): with one model whose percentage is NaN,
\* currentUsedPrompt and currentUsedFlow are NaN
currentUsedIsNaN(s) == SnapshotTable[s].nanModels > 0

creditsUsedPrompt(s) == SnapshotTable[s].promptMonthly - SnapshotTable[s].promptAvailable
creditsUsedFlow(s) == SnapshotTable[s].flowMonthly - SnapshotTable[s].flowAvailable

\* Math.max(creditsUsedPrompt, Math.floor(modelBasedTokens * 0.6)), when it
\* is a number
currentUsedPrompt(s) == Max(creditsUsedPrompt(s), (modelBasedTokens(s) * 6) \div 10)

\* Math.max(creditsUsedFlow, Math.floor(modelBasedTokens * 0.4)), when it is
\* a number
currentUsedFlow(s) == Max(creditsUsedFlow(s), (modelBasedTokens(s) * 4) \div 10)

\* activeModels.length || 1
RECURSIVE CountActive(_)
CountActive(models) ==
    IF models = <<>> THEN 0
    ELSE (IF Head(models) < 100 THEN 1 ELSE 0) + CountActive(Tail(models))

sessionCountOf(s) ==
    IF CountActive(SnapshotTable[s].models) = 0 THEN 1
    ELSE CountActive(SnapshotTable[s].models)

---------------------------------------------------------------------------
(* The cursor as read by getLastSubmission() *)

\* lastSubmission?.totalUsedInput || 0
lastUsedInput(last) == IF last = <<>> THEN 0 ELSE last[1].totalUsedInput

\* lastSubmission?.totalUsedOutput || 0
lastUsedOutput(last) == IF last = <<>> THEN 0 ELSE last[1].totalUsedOutput

\* lastSubmission?.checksum || '0'.repeat(64)
previousChecksumOf(last) == IF last = <<>> THEN ZeroChecksum ELSE last[1].checksum

\* let inc = current - last; if (inc < 0) inc = current
Increment(current, last) ==
    IF current - last < 0 THEN current ELSE current - last

---------------------------------------------------------------------------
(* Checksums.  HMAC-SHA256 is kept symbolic: the checksum is the term of    *)
(* everything that is hashed, so two checksums are equal exactly when what  *)
(* was hashed is equal.                                                     *)

\* createHmac('sha256', 'agy-top-v1').update(`${installationId}:${userId}`)
\* with getInstallationId() and getUserId() || 0 of the config store
deriveSecret ==
    <<"agy-top-v1", config.installationId,
      IF config.auth.userId = <<>> THEN 0 ELSE config.auth.userId[1]>>

\* Variant that hands out its key instead of a digest.
generateCumulativeChecksum_ReturnsKey(currentData, previousChecksum) ==
    deriveSecret

generateCumulativeChecksum(currentData, previousChecksum) ==
    <<deriveSecret, currentData, previousChecksum, clock>>

---------------------------------------------------------------------------
(* doSubmit (dashboard) up to its await of ApiClient.submitUsage *)

\* if (incrementalInput <= 0 && incrementalOutput <= 0 && !hasModelChange) return
NothingNew(incrementalInput, incrementalOutput, hasModelChange) ==
    incrementalInput <= 0 /\ incrementalOutput <= 0 /\ ~hasModelChange

\* doSubmit with currentUsedPrompt and currentUsedFlow NaN: both differences
\* are NaN, NaN < 0 and NaN <= 0 are false and so is currentModelUsage >
\* lastModelUsage, so neither the reset rule, nor the return, nor the forced
\* minimum applies and the request is sent with both increments NaN.
\* JSON.stringify writes a NaN as null, in the payload of the checksum, in
\* the request and in the config store; a NaN number is written here as 0
\* beside nan |-> TRUE, 0 being what `|| 0` reads back from the cursor.
doSubmitNaN(origin, s, last) ==
    [origin |-> origin,
     nothing |-> FALSE,
     nan |-> TRUE,
     snap |-> s,
     curIn |-> 0,
     curOut |-> 0,
     lastIn |-> lastUsedInput(last),
     lastOut |-> lastUsedOutput(last),
     force |-> FALSE,
     hasModelChange |-> FALSE,
     inputTokens |-> 0,
     outputTokens |-> 0,
     sessionCount |-> sessionCountOf(s),
     previousChecksum |-> previousChecksumOf(last),
     cumulativeChecksum |->
         generateCumulativeChecksum(
             [periodEnd |-> clock, inputTokens |-> 0, outputTokens |-> 0,
              sessionCount |-> sessionCountOf(s), nan |-> TRUE],
             previousChecksumOf(last)),
     reset |-> FALSE]

\* The attempt doSubmit makes from snapshot s with the cursor `last`: the values
\* it computes, and whether it returns "No new usage to submit" or sends.
doSubmit(origin, s, last) ==
    IF currentUsedIsNaN(s) THEN doSubmitNaN(origin, s, last)
    ELSE
        LET curP == currentUsedPrompt(s)
            curF == currentUsedFlow(s)
            lastP == lastUsedInput(last)
            lastF == lastUsedOutput(last)
            inc0In == Increment(curP, lastP)
            inc0Out == Increment(curF, lastF)
            lastModelUsage == IF last # <<>> THEN lastP + lastF ELSE 0
            hasModelChange == curP + curF > lastModelUsage
            forced == inc0In <= 0 /\ inc0Out <= 0 /\ hasModelChange
            incIn == IF forced THEN Max(1, curP - lastP) ELSE inc0In
            incOut == IF forced THEN Max(1, curF - lastF) ELSE inc0Out
            nothing == NothingNew(inc0In, inc0Out, hasModelChange)
            prev == IF nothing THEN ZeroChecksum ELSE previousChecksumOf(last)
            data == [periodEnd |-> clock, inputTokens |-> incIn,
                     outputTokens |-> incOut, sessionCount |-> sessionCountOf(s)]
        IN  [origin |-> origin,
             nothing |-> nothing,
             nan |-> FALSE,
             snap |-> s,
             curIn |-> curP,
             curOut |-> curF,
             lastIn |-> lastP,
             lastOut |-> lastF,
             force |-> FALSE,
             hasModelChange |-> hasModelChange,
             inputTokens |-> incIn,
             outputTokens |-> incOut,
             sessionCount |-> sessionCountOf(s),
             previousChecksum |-> prev,
             cumulativeChecksum |->
                 IF nothing THEN ZeroChecksum
                 ELSE generateCumulativeChecksum(data, prev),
             reset |-> (curP - lastP < 0 \/ curF - lastF < 0)]

\* The attempt e returns at once, or its request goes out and awaits the response.
Attempt(e) ==
    /\ event' = <<IF e.nothing THEN "nothing_new" ELSE "sent", e.origin>>
    /\ resetSeen' = (resetSeen \/ e.reset)
    /\ IF e.nothing
       THEN UNCHANGED <<inflight, nsent>>
       ELSE /\ nsent < MaxSent
            /\ nsent' = nsent + 1
            /\ inflight' = Append(inflight, e)

NoAttempt == event' = <<>> /\ UNCHANGED <<inflight, nsent, resetSeen>>

---------------------------------------------------------------------------
(* refreshData and checkAndAutoSubmit *)

\* currPrompt < prevPrompt || currFlow < prevFlow
usageChanged(prev, curr) ==
    \/ SnapshotTable[curr].promptAvailable < SnapshotTable[prev].promptAvailable
    \/ SnapshotTable[curr].flowAvailable < SnapshotTable[prev].flowAvailable

\* timeSinceLastSubmit >= minInterval (Infinity when lastSubmitTime is null)
RateLimitPassed ==
    lastSubmitTime = <<>> \/ clock - lastSubmitTime[1] >= minInterval

\* refreshData reaches doSubmit: auto-submit is on, the dashboard is in rank mode
\* and authenticated, both snapshots exist, usage changed, the rate limit passed.
checkAndAutoSubmit(prev, curr) ==
    /\ rankMode
    /\ authenticated
    /\ curr # NullSnapshot
    /\ prev # NullSnapshot
    /\ usageChanged(prev, curr)
    /\ RateLimitPassed

\* result.error of a failed fetchQuota: `HTTP error ${response.status}`, or
\* the message of what fetch or response.json() threw
FetchErrors == {<<"HTTP error", 500>>, <<"fetch failed">>}

\* The error of a failed ApiClient.getLeaderboard (axios)
LeaderboardError == <<"Request failed with status code", 500>>

\* Variant that shifts the snapshots on a failed fetch as well.
refreshData_ShiftsOnFailure(result, origin) ==
    IF result = NullSnapshot
    THEN /\ error' \in FetchErrors
         /\ previousSnapshot' = snapshot
         /\ snapshot' = snapshot
         /\ NoAttempt
         /\ UNCHANGED failed
    ELSE /\ previousSnapshot' = snapshot
         /\ snapshot' = result
         /\ error' = <<>>
         /\ failed' = IF result = snapshot THEN failed ELSE <<>>
         /\ IF checkAndAutoSubmit(snapshot, result)
            THEN Attempt(doSubmit(origin, result, cursor))
            ELSE NoAttempt

\* refreshData from the return of fetchQuota to the next await.  result is the
\* snapshot fetched, or NullSnapshot when the fetch failed and result.error
\* becomes state.error (fetchQuota never fails without a message, so the
\* fallback 'Failed to fetch quota' is not taken).
refreshData(result, origin) ==
    IF result = NullSnapshot
    THEN /\ error' \in FetchErrors
         /\ NoAttempt
         /\ UNCHANGED <<snapshot, previousSnapshot, failed>>
    ELSE /\ previousSnapshot' = snapshot
         /\ snapshot' = result
         /\ error' = <<>>
         /\ failed' = IF result = snapshot THEN failed ELSE <<>>
         /\ IF checkAndAutoSubmit(snapshot, result)
            THEN Attempt(doSubmit(origin, result, cursor))
            ELSE NoAttempt

---------------------------------------------------------------------------
(* The dashboard's handlers *)

\* refreshData after the snapshot and the auto-submit: fetchTokenUsageStats
\* (and fetchWeeklyTrend) are awaited when logged in, or when there is a
\* snapshot with tokenUsage; each GET of /agy/usage/my ends after 30 s at most.
\* What they fetch is only drawn.
AwaitsStats(snap) == authenticated \/ snap # NullSnapshot

\* renderDashboard: barWidth = Math.min(35, width - 50) with width =
\* Math.min(process.stdout.columns || 80, 100), on a terminal of 80 columns
barWidth == 30

\* progressBar(percentage, width) and miniBar(percentage, width) for the
\* percentage (available / monthly) * 100: filled = Math.round((percentage /
\* 100) * width), empty = width - filled, and String.repeat throws a
\* RangeError on a negative count
progressBarThrows(available, monthly, width) ==
    LET filled == (2 * width * available + monthly) \div (2 * monthly)
    IN filled < 0 \/ width - filled < 0

\* render(state, options) throws: only renderDashboard draws the snapshot, the
\* credits with progressBar(remainingPercentage, barWidth) and each model with
\* miniBar(model.remainingPercentage, 8)
renderThrows(view, snap) ==
    /\ view = "dashboard"
    /\ snap # NullSnapshot
    /\ \/ progressBarThrows(SnapshotTable[snap].promptAvailable,
                            SnapshotTable[snap].promptMonthly, barWidth)
       \/ progressBarThrows(SnapshotTable[snap].flowAvailable,
                            SnapshotTable[snap].flowMonthly, barWidth)
       \/ \E i \in DOMAIN SnapshotTable[snap].models :
              progressBarThrows(SnapshotTable[snap].models[i], 100, 8)

\* The 'r' handlers between their start and their end
RefreshHandlers ==
    refreshKeys + statsKeys
        + Cardinality({i \in DOMAIN inflight : inflight[i].origin = "auto_key_r"})

\* runDashboard: the fetchQuota of the first refreshData returns; no handler is
\* installed and no timer armed before refreshData has returned
InitialLoad(result) ==
    /\ ~loaded
    /\ timerPc = "starting"
    /\ refreshData(result, "auto_timer")
    /\ timerPc' = IF AwaitsStats(snapshot') THEN "stats" ELSE "waiting"
    /\ loaded' = ~AwaitsStats(snapshot')
    /\ UNCHANGED <<authenticated, rankMode, currentView, lastSubmitTime,
                   refreshKeys, cursor, ackedSnapshot, cli, clock, ticks, ackedInput,
                   ackedOutput>>
    /\ UNCHANGED <<leaderboardGets, statsKeys, crashed, componentVars>>

\* refreshLoop: the setTimeout callback starts refreshData (await fetchQuota)
TimerFire ==
    /\ loaded
    /\ ~crashed
    /\ timerPc = "waiting"
    /\ timerPc' = "fetching"
    /\ NoAttempt
    /\ UNCHANGED <<authenticated, rankMode, loaded, snapshot, previousSnapshot,
                   currentView, lastSubmitTime, refreshKeys, cursor, ackedSnapshot, cli, clock,
                   ticks, ackedInput, ackedOutput, failed>>
    /\ UNCHANGED <<error, leaderboardGets, statsKeys, crashed, componentVars>>

\* the timer's fetchQuota returns: refreshData awaits the auto-submit, or the
\* usage statistics, or returns and refreshLoop arms the next timer (with no
\* snapshot there is nothing a render could throw on)
TimerFetchDone(result) ==
    /\ ~crashed
    /\ timerPc = "fetching"
    /\ refreshData(result, "auto_timer")
    /\ timerPc' = IF nsent' # nsent THEN "submitting"
                  ELSE IF AwaitsStats(snapshot') THEN "stats"
                  ELSE "waiting"
    /\ UNCHANGED <<authenticated, rankMode, loaded, currentView, lastSubmitTime,
                   refreshKeys, cursor, ackedSnapshot, cli, clock, ticks, ackedInput,
                   ackedOutput>>
    /\ UNCHANGED <<leaderboardGets, statsKeys, crashed, componentVars>>

\* the last GET of the usage statistics is answered (or timed out): refreshData
\* returns; after the first one state.isLoading is cleared and the key handler
\* installed; refreshLoop() renders in the dashboard view and then arms the
\* timer, which a throwing render leaves unarmed
StatsFetched ==
    /\ ~crashed
    /\ timerPc = "stats"
    /\ crashed' = renderThrows(currentView, snapshot)
    /\ timerPc' = IF crashed' THEN timerPc ELSE "waiting"
    /\ loaded' = TRUE
    /\ NoAttempt
    /\ UNCHANGED <<authenticated, rankMode, snapshot, previousSnapshot,
                   currentView, lastSubmitTime, refreshKeys, cursor, ackedSnapshot, cli, clock,
                   ticks, ackedInput, ackedOutput, failed>>
    /\ UNCHANGED <<error, leaderboardGets, statsKeys, componentVars>>

\* key 'r' in the dashboard view: render, then await refreshData
KeyR ==
    /\ loaded
    /\ ~crashed
    /\ currentView = "dashboard"
    /\ RefreshHandlers < MaxRefreshKeys
    /\ crashed' = renderThrows(currentView, snapshot)
    /\ refreshKeys' = IF crashed' THEN refreshKeys ELSE refreshKeys + 1
    /\ NoAttempt
    /\ UNCHANGED <<authenticated, rankMode, loaded, snapshot, previousSnapshot,
                   currentView, lastSubmitTime, timerPc, cursor, ackedSnapshot, cli, clock,
                   ticks, ackedInput, ackedOutput, failed>>
    /\ UNCHANGED <<error, leaderboardGets, statsKeys, componentVars>>

\* the fetchQuota of an 'r' handler returns: refreshData awaits the
\* auto-submit, or the usage statistics, or returns and the handler renders
\* (with no snapshot there is nothing a render could throw on)
KeyRFetchDone(result) ==
    /\ ~crashed
    /\ refreshKeys > 0
    /\ refreshData(result, "auto_key_r")
    /\ refreshKeys' = refreshKeys - 1
    /\ statsKeys' = IF nsent' = nsent /\ AwaitsStats(snapshot')
                    THEN statsKeys + 1
                    ELSE statsKeys
    /\ UNCHANGED <<authenticated, rankMode, loaded, currentView, lastSubmitTime,
                   timerPc, cursor, ackedSnapshot, cli, clock, ticks, ackedInput, ackedOutput>>
    /\ UNCHANGED <<leaderboardGets, crashed, componentVars>>

\* the usage statistics of an 'r' handler are fetched: refreshData returns and
\* the handler renders
KeyRStatsFetched ==
    /\ ~crashed
    /\ statsKeys > 0
    /\ statsKeys' = statsKeys - 1
    /\ crashed' = renderThrows(currentView, snapshot)
    /\ NoAttempt
    /\ UNCHANGED <<authenticated, rankMode, loaded, snapshot, previousSnapshot,
                   currentView, lastSubmitTime, timerPc, refreshKeys, cursor, ackedSnapshot,
                   cli, clock, ticks, ackedInput, ackedOutput, failed>>
    /\ UNCHANGED <<error, leaderboardGets, componentVars>>

\* key 's' in the dashboard view, rank mode: the submit view is rendered, and
\* performSubmit runs up to its await
KeyS ==
    /\ loaded
    /\ ~crashed
    /\ currentView = "dashboard"
    /\ rankMode
    /\ currentView' = "submit"
    /\ IF ~authenticated \/ snapshot = NullSnapshot
       THEN NoAttempt /\ UNCHANGED failed
       ELSE Attempt(doSubmit("key_s", snapshot, cursor)) /\ failed' = <<>>
    /\ UNCHANGED <<authenticated, rankMode, loaded, snapshot, previousSnapshot,
                   lastSubmitTime, timerPc, refreshKeys, cursor, ackedSnapshot, cli, clock,
                   ticks, ackedInput, ackedOutput>>
    /\ UNCHANGED <<error, leaderboardGets, statsKeys, crashed, componentVars>>

\* key 'l' in the dashboard view, rank mode: the leaderboard view, and await
\* ApiClient.getLeaderboard
KeyL ==
    /\ loaded
    /\ ~crashed
    /\ currentView = "dashboard"
    /\ rankMode
    /\ leaderboardGets < MaxLeaderboardGets
    /\ currentView' = "leaderboard"
    /\ leaderboardGets' = leaderboardGets + 1
    /\ NoAttempt
    /\ UNCHANGED <<authenticated, rankMode, loaded, snapshot, previousSnapshot,
                   lastSubmitTime, timerPc, refreshKeys, cursor, ackedSnapshot, cli, clock,
                   ticks, ackedInput, ackedOutput, failed>>
    /\ UNCHANGED <<error, statsKeys, crashed, componentVars>>

\* a key of the leaderboard view that selects another period ('1'..'5', 'h',
\* 'l', the arrows): await ApiClient.getLeaderboard
KeyPeriod ==
    /\ loaded
    /\ ~crashed
    /\ currentView = "leaderboard"
    /\ leaderboardGets < MaxLeaderboardGets
    /\ leaderboardGets' = leaderboardGets + 1
    /\ NoAttempt
    /\ UNCHANGED <<authenticated, rankMode, loaded, snapshot, previousSnapshot,
                   currentView, lastSubmitTime, timerPc, refreshKeys, cursor, ackedSnapshot,
                   cli, clock, ticks, ackedInput, ackedOutput, failed>>
    /\ UNCHANGED <<error, statsKeys, crashed, componentVars>>

\* ApiClient.getLeaderboard returns the rows, or throws and the handler stores
\* the message in state.error; the handler renders the view of that moment
LeaderboardFetched(ok) ==
    /\ ~crashed
    /\ leaderboardGets > 0
    /\ leaderboardGets' = leaderboardGets - 1
    /\ error' = IF ok THEN error ELSE LeaderboardError
    /\ crashed' = renderThrows(currentView, snapshot)
    /\ NoAttempt
    /\ UNCHANGED <<authenticated, rankMode, loaded, snapshot, previousSnapshot,
                   currentView, lastSubmitTime, timerPc, refreshKeys, cursor, ackedSnapshot,
                   cli, clock, ticks, ackedInput, ackedOutput, failed>>
    /\ UNCHANGED <<statsKeys, componentVars>>

\* key '?' in the dashboard view: the help view
KeyHelp ==
    /\ loaded
    /\ ~crashed
    /\ currentView = "dashboard"
    /\ currentView' = "help"
    /\ NoAttempt
    /\ UNCHANGED <<authenticated, rankMode, loaded, snapshot, previousSnapshot,
                   lastSubmitTime, timerPc, refreshKeys, cursor, ackedSnapshot, cli, clock,
                   ticks, ackedInput, ackedOutput, failed>>
    /\ UNCHANGED <<error, leaderboardGets, statsKeys, crashed, componentVars>>

\* The keys a user may press ("esc" is '\x1B', "x" any key without a meaning)
Keys == {"q", "esc", "r", "s", "x"}

\* a key outside the dashboard view: in the submit and help views any key
\* returns to the dashboard view, in the leaderboard view 'q' and Escape do (and
\* Ctrl-C), and its other keys leave the view as it is; the dashboard view is
\* rendered on the return
KeyBack(key) ==
    /\ loaded
    /\ ~crashed
    /\ currentView # "dashboard"
    /\ currentView' = IF currentView = "leaderboard" /\ key \notin {"q", "esc"}
                      THEN currentView
                      ELSE "dashboard"
    /\ crashed' = renderThrows(currentView', snapshot)
    /\ NoAttempt
    /\ UNCHANGED <<authenticated, rankMode, loaded, snapshot, previousSnapshot,
                   lastSubmitTime, timerPc, refreshKeys, cursor, ackedSnapshot, cli, clock,
                   ticks, ackedInput, ackedOutput, failed>>
    /\ UNCHANGED <<error, leaderboardGets, statsKeys, componentVars>>

---------------------------------------------------------------------------
(* The submit command and the exported submitUsage(), up to the await of    *)
(* ApiClient.submitUsage                                                    *)

\* Variant without the cooldown.
SubmittedWithinHour_Never(last) == FALSE

\* hoursSince < 1 for the cursor read at the start
SubmittedWithinHour(last) ==
    last # <<>> /\ clock - last[1].timestamp < MinutesPerHour

\* submitCommand: if (incIn <= 0 && incOut <= 0 && !options.force) return;
\* submitUsage: the same test only stops the spinner and falls through.
CliNothingNew(mode, force, incrementalInput, incrementalOutput) ==
    mode = "command" /\ incrementalInput <= 0 /\ incrementalOutput <= 0 /\ ~force

\* The attempt made once collector.collect() has returned stats, from the cursor
\* `last` that was read before the collection.
cliSubmit(mode, force, stats, last) ==
    LET lastIn == lastUsedInput(last)
        lastOut == lastUsedOutput(last)
        incIn == Increment(stats.inputTokens, lastIn)
        incOut == Increment(stats.outputTokens, lastOut)
        nothing == CliNothingNew(mode, force, incIn, incOut)
        prev == IF nothing THEN ZeroChecksum ELSE previousChecksumOf(last)
        data == [periodEnd |-> stats.periodEnd, inputTokens |-> incIn,
                 outputTokens |-> incOut, sessionCount |-> stats.sessionCount]
    IN  [origin |-> mode,
         nothing |-> nothing,
         nan |-> FALSE,
         snap |-> NullSnapshot,
         curIn |-> stats.inputTokens,
         curOut |-> stats.outputTokens,
         lastIn |-> lastIn,
         lastOut |-> lastOut,
         force |-> force,
         hasModelChange |-> FALSE,
         inputTokens |-> incIn,
         outputTokens |-> incOut,
         sessionCount |-> stats.sessionCount,
         previousChecksum |-> prev,
         cumulativeChecksum |->
             IF nothing THEN ZeroChecksum
             ELSE generateCumulativeChecksum(data, prev),
         reset |-> (stats.inputTokens - lastIn < 0 \/ stats.outputTokens - lastOut < 0)]

CliIdle ==
    [pc |-> "idle", mode |-> "command", force |-> FALSE, last |-> <<>>,
     periodEnd |-> 0]

\* `agy-top submit [--force]` or submitUsage() starts: reads the cursor, returns
\* when the last submission is less than an hour old, else awaits the collector.
CliStart(mode, force) ==
    /\ cli.pc = "idle"
    /\ authenticated
    /\ mode = "library" => ~force
    /\ cli' = IF SubmittedWithinHour(cursor) /\ ~force
              THEN cli
              ELSE [pc |-> "collecting", mode |-> mode, force |-> force,
                    last |-> cursor, periodEnd |-> clock]
    /\ NoAttempt
    /\ UNCHANGED <<authenticated, rankMode, loaded, snapshot, previousSnapshot,
                   currentView, lastSubmitTime, timerPc, refreshKeys, cursor,
                   ackedSnapshot, clock, ticks, ackedInput, ackedOutput, failed>>
    /\ UNCHANGED <<error, leaderboardGets, statsKeys, crashed, componentVars>>

\* collector.collect() returns: compute the increment, return or send
CliCollected(stats) ==
    /\ cli.pc = "collecting"
    /\ Attempt(cliSubmit(cli.mode, cli.force,
                         [inputTokens |-> stats.inputTokens,
                          outputTokens |-> stats.outputTokens,
                          sessionCount |-> stats.sessionCount,
                          periodEnd |-> cli.periodEnd],
                         cli.last))
    /\ cli' = IF nsent' # nsent THEN [cli EXCEPT !.pc = "submitting"] ELSE CliIdle
    /\ failed' = <<>>
    /\ UNCHANGED <<authenticated, rankMode, loaded, snapshot, previousSnapshot,
                   currentView, lastSubmitTime, timerPc, refreshKeys, cursor,
                   ackedSnapshot, clock, ticks, ackedInput, ackedOutput>>
    /\ UNCHANGED <<error, leaderboardGets, statsKeys, crashed, componentVars>>

---------------------------------------------------------------------------
(* The response of the remote service to the i-th request in flight *)

Outcomes == {"ok", "rejected", "threw"}

\* Variant that stores the cursor whatever the response.
storeLastSubmission_OnAnyResponse(e, outcome) ==
    << [timestamp |-> clock,
        checksum |-> e.cumulativeChecksum,
        totalUsedInput |-> e.curIn,
        totalUsedOutput |-> e.curOut] >>

\* if (result.success) storeLastSubmission({timestamp, checksum, totalUsedInput,
\* totalUsedOutput}); nothing is stored otherwise.  The store has no schema
\* and keeps JSON: the totals of an attempt with nan are stored as null, and
\* read back as 0.
storeLastSubmission(e, outcome) ==
    IF outcome = "ok"
    THEN << [timestamp |-> clock,
             checksum |-> e.cumulativeChecksum,
             totalUsedInput |-> e.curIn,
             totalUsedOutput |-> e.curOut] >>
    ELSE cursor

\* if (result.success) state.lastSubmitTime = new Date()   (doSubmit only)
lastSubmitTimeAfter(e, outcome) ==
    IF outcome = "ok" /\ e.origin \in DashboardOrigins
    THEN <<clock>>
    ELSE lastSubmitTime

\* checkAndAutoSubmit catches what doSubmit throws, so refreshData goes on to
\* the usage statistics (awaited: an auto-submit is made with a snapshot), and
\* the setTimeout callback then to refreshLoop(), which sets the next timer
refreshLoopAfter(e, outcome) ==
    IF e.origin = "auto_timer" THEN "stats" ELSE timerPc

Remove(seq, i) == SubSeq(seq, 1, i - 1) \o SubSeq(seq, i + 1, Len(seq))

\* The response to the request of a dashboard handler is handled while the
\* dashboard runs; that to a 'key_s' request is followed by the handler's
\* render of the view of that moment, that to an auto-submit by the usage
\* statistics of its refreshData
Respond(i, outcome) ==
    LET e == inflight[i]
    IN  /\ i \in DOMAIN inflight
        /\ e.origin \in DashboardOrigins => ~crashed
        /\ inflight' = Remove(inflight, i)
        /\ event' = <<outcome, e.origin>>
        /\ cursor' = storeLastSubmission(e, outcome)
        /\ ackedSnapshot' = IF outcome = "ok" THEN e.snap ELSE ackedSnapshot
        /\ lastSubmitTime' = lastSubmitTimeAfter(e, outcome)
        /\ ackedInput' = IF outcome = "ok" THEN ackedInput + e.inputTokens
                         ELSE ackedInput
        /\ ackedOutput' = IF outcome = "ok" THEN ackedOutput + e.outputTokens
                          ELSE ackedOutput
        /\ timerPc' = refreshLoopAfter(e, outcome)
        /\ statsKeys' = IF e.origin = "auto_key_r" THEN statsKeys + 1 ELSE statsKeys
        /\ crashed' = IF e.origin = "key_s"
                      THEN renderThrows(currentView, snapshot)
                      ELSE crashed
        /\ cli' = IF e.origin \in CliOrigins THEN CliIdle ELSE cli
        /\ failed' = IF /\ outcome # "ok"
                        /\ e.origin \in DashboardOrigins
                        /\ e.snap = snapshot
                     THEN <<e>>
                     ELSE failed
        /\ UNCHANGED <<authenticated, rankMode, loaded, snapshot,
                       previousSnapshot, currentView, refreshKeys, clock, ticks,
                       nsent, resetSeen, error, leaderboardGets,
                       componentVars>>

\* time passes
Tick(d) ==
    /\ ticks < MaxTicks
    /\ ticks' = ticks + 1
    /\ clock' = clock + d
    /\ NoAttempt
    /\ UNCHANGED <<authenticated, rankMode, loaded, snapshot, previousSnapshot,
                   currentView, lastSubmitTime, timerPc, refreshKeys, cursor, ackedSnapshot,
                   cli, ackedInput, ackedOutput, failed>>
    /\ UNCHANGED <<error, leaderboardGets, statsKeys, crashed, componentVars>>

---------------------------------------------------------------------------
(* The components while the dashboard and the submit command are specified *)

DetectorIdle == [pc |-> "idle"]
EstimatorIdle == [pc |-> "idle"]
FetcherIdle == [pc |-> "idle"]

\* The endpoints (port and CSRF token) a language server may listen on
Endpoints ==
    { [port |-> 7001, csrfToken |-> "tokA"], [port |-> 7002, csrfToken |-> "tokB"],
      [port |-> 7001, csrfToken |-> "tokB"] }

\* state.server = detection.server: the dashboard starts with the endpoint
\* the detection found
ServerFound ==
    [handle |-> [port |-> 7001, csrfToken |-> "tokA"],
     actual |-> [port |-> 7001, csrfToken |-> "tokA"]]

\* An auth record as storeAuth writes it, and the empty object clearAuth
\* leaves; an absent field is <<>>
AuthRecords ==
    { [token |-> <<"jwtA">>, userId |-> <<7>>, email |-> <<"a@example.org">>],
      [token |-> <<"jwtB">>, userId |-> <<8>>, email |-> <<>>] }

AuthEmpty == [token |-> <<>>, userId |-> <<>>, email |-> <<>>]

\* The config store of an installation, logged in or not
ConfigOf(auth) ==
    [auth |-> auth,
     apiUrl |-> "https://api.paean.ai",
     webUrl |-> "https://app.paean.ai",
     installationId |-> "agy-1700000000000-k3x9q2ab"]

\* let publicClient = null; let authClient = null; nothing sent yet and no
\* login under way
HttpIdle == [publicClient |-> <<>>, authClient |-> <<>>, sent |-> <<>>, login |-> "idle"]

---------------------------------------------------------------------------
(* The dashboard with the submit command *)

\* cli.ts: rankMode = options.rank || isAuthenticated()
Init ==
    /\ authenticated \in BOOLEAN
    /\ rankMode \in {r \in BOOLEAN : authenticated => r}
    /\ loaded = FALSE
    /\ snapshot = NullSnapshot
    /\ previousSnapshot = NullSnapshot
    /\ currentView = "dashboard"
    /\ lastSubmitTime = <<>>
    /\ timerPc = "starting"
    /\ refreshKeys = 0
    /\ cursor = <<>>
    /\ inflight = <<>>
    /\ cli = CliIdle
    /\ clock = 0
    /\ ticks = 0
    /\ nsent = 0
    /\ event = <<>>
    /\ ackedInput = 0
    /\ ackedOutput = 0
    /\ ackedSnapshot = NullSnapshot
    /\ resetSeen = FALSE
    /\ failed = <<>>
    /\ error = <<>>
    /\ leaderboardGets = 0
    /\ statsKeys = 0
    /\ crashed = FALSE
    /\ detector = DetectorIdle
    /\ estimator = EstimatorIdle
    /\ fetcher = FetcherIdle
    /\ server = ServerFound
    /\ config = ConfigOf(IF authenticated
                         THEN [token |-> <<"jwtA">>, userId |-> <<7>>, email |-> <<"a@example.org">>]
                         ELSE AuthEmpty)
    /\ http = HttpIdle

Next ==
    \/ \E r \in SnapshotIds \cup {NullSnapshot} : InitialLoad(r)
    \/ TimerFire
    \/ \E r \in SnapshotIds \cup {NullSnapshot} : TimerFetchDone(r)
    \/ StatsFetched
    \/ KeyR
    \/ \E r \in SnapshotIds \cup {NullSnapshot} : KeyRFetchDone(r)
    \/ KeyRStatsFetched
    \/ KeyS
    \/ KeyL
    \/ KeyPeriod
    \/ \E ok \in BOOLEAN : LeaderboardFetched(ok)
    \/ KeyHelp
    \/ \E key \in Keys : KeyBack(key)
    \/ \E m \in CliOrigins, f \in BOOLEAN : CliStart(m, f)
    \/ \E st \in CollectedStats : CliCollected(st)
    \/ \E i \in 1..MaxSent, o \in Outcomes : Respond(i, o)
    \/ \E d \in TickSteps : Tick(d)

Spec == Init /\ [][Next]_allVars

\* The dashboard alone, no submit command running beside it
NextDashboard ==
    \/ \E r \in SnapshotIds \cup {NullSnapshot} : InitialLoad(r)
    \/ TimerFire
    \/ \E r \in SnapshotIds \cup {NullSnapshot} : TimerFetchDone(r)
    \/ StatsFetched
    \/ KeyR
    \/ \E r \in SnapshotIds \cup {NullSnapshot} : KeyRFetchDone(r)
    \/ KeyRStatsFetched
    \/ KeyS
    \/ KeyL
    \/ KeyPeriod
    \/ \E ok \in BOOLEAN : LeaderboardFetched(ok)
    \/ KeyHelp
    \/ \E key \in Keys : KeyBack(key)
    \/ \E i \in 1..MaxSent, o \in Outcomes : Respond(i, o)
    \/ \E d \in TickSteps : Tick(d)

SpecDashboard == Init /\ [][NextDashboard]_allVars

\* The submissions of the dashboard (auto-submit of the refresh loop, key 's')
\* and of the submit command beside it, the user pressing no other key
NextSubmission ==
    \/ \E r \in SnapshotIds \cup {NullSnapshot} : InitialLoad(r)
    \/ TimerFire
    \/ \E r \in SnapshotIds \cup {NullSnapshot} : TimerFetchDone(r)
    \/ StatsFetched
    \/ KeyS
    \/ \E key \in Keys : KeyBack(key)
    \/ \E m \in CliOrigins, f \in BOOLEAN : CliStart(m, f)
    \/ \E st \in CollectedStats : CliCollected(st)
    \/ \E i \in 1..MaxSent, o \in Outcomes : Respond(i, o)
    \/ \E d \in TickSteps : Tick(d)

SpecSubmission == Init /\ [][NextSubmission]_allVars

\* The dashboard beside a language server that may report more credits
\* available than the plan has in a month
NextOverflow ==
    \/ \E r \in {1, 4, NullSnapshot} : InitialLoad(r)
    \/ TimerFire
    \/ \E r \in {1, 4, NullSnapshot} : TimerFetchDone(r)
    \/ StatsFetched
    \/ KeyR
    \/ \E r \in {1, 4, NullSnapshot} : KeyRFetchDone(r)
    \/ KeyRStatsFetched
    \/ KeyS
    \/ KeyL
    \/ \E ok \in BOOLEAN : LeaderboardFetched(ok)
    \/ KeyHelp
    \/ \E key \in Keys : KeyBack(key)
    \/ \E i \in 1..MaxSent, o \in Outcomes : Respond(i, o)

SpecOverflow == Init /\ [][NextOverflow]_allVars

\* The dashboard beside a language server whose remaining fractions may lie
\* above 1 or be no numbers, the user pressing 's' and no other key
NextUnclamped ==
    \/ \E r \in {1, 5, 6, NullSnapshot} : InitialLoad(r)
    \/ TimerFire
    \/ \E r \in {1, 5, 6, NullSnapshot} : TimerFetchDone(r)
    \/ StatsFetched
    \/ KeyS
    \/ \E key \in Keys : KeyBack(key)
    \/ \E i \in 1..MaxSent, o \in Outcomes : Respond(i, o)

SpecUnclamped == Init /\ [][NextUnclamped]_allVars

---------------------------------------------------------------------------
(* The refresh loop alone, with a local server that may stop answering *)

\* fetchQuota: the endpoint accepted the request of the timer's refresh and
\* does not respond; await fetch(url, ...) is given no signal and no timeout,
\* so the wait lasts until the runtime's fetch gives the request up
EndpointHangs ==
    /\ ~crashed
    /\ timerPc = "fetching"
    /\ clock < MaxHangClock
    /\ timerPc' = "hung"
    /\ NoAttempt
    /\ UNCHANGED <<authenticated, rankMode, loaded, snapshot, previousSnapshot,
                   currentView, lastSubmitTime, refreshKeys, cursor, ackedSnapshot, cli, clock,
                   ticks, ackedInput, ackedOutput, failed>>
    /\ UNCHANGED <<error, leaderboardGets, statsKeys, crashed, componentVars>>

\* Variant whose fetch waits for the response without end.
FetchTimedOut_Never ==
    /\ FALSE
    /\ UNCHANGED allVars

\* fetchQuota: no response headers arrive within the headers timeout of the
\* runtime's fetch, which rejects with TypeError 'fetch failed'; the catch
\* returns { success: false, error: 'fetch failed' }, refreshData stores the
\* message and goes on to the usage statistics or returns, and refreshLoop
\* arms the next timer
FetchTimedOut ==
    /\ ~crashed
    /\ timerPc = "hung"
    /\ refreshData(NullSnapshot, "auto_timer")
    /\ error' = <<"fetch failed">>
    /\ clock' = clock + headersTimeout
    /\ timerPc' = IF AwaitsStats(snapshot') THEN "stats" ELSE "waiting"
    /\ UNCHANGED <<authenticated, rankMode, loaded, currentView, lastSubmitTime,
                   refreshKeys, cursor, ackedSnapshot, cli, ticks, ackedInput, ackedOutput>>
    /\ UNCHANGED <<leaderboardGets, statsKeys, crashed, componentVars>>

InitRefresh == Init /\ ~authenticated

NextRefresh ==
    \/ \E r \in SnapshotIds \cup {NullSnapshot} : InitialLoad(r)
    \/ TimerFire
    \/ \E r \in SnapshotIds \cup {NullSnapshot} : TimerFetchDone(r)
    \/ StatsFetched
    \/ EndpointHangs
    \/ FetchTimedOut
    \/ KeyR
    \/ \E r \in SnapshotIds \cup {NullSnapshot} : KeyRFetchDone(r)
    \/ KeyRStatsFetched
    \/ \E d \in TickSteps : Tick(d)

SpecRefresh == InitRefresh /\ [][NextRefresh]_allVars

\* The event loop runs every callback that is due: the timeout of the
\* runtime's fetch, and the answer or the timeout (30 s) of the last GET of
\* the usage statistics
SpecRefreshFair ==
    SpecRefresh /\ WF_allVars(FetchTimedOut) /\ WF_allVars(StatsFetched)

---------------------------------------------------------------------------
(* Detection of the language server: detectAntigravityServer *)

MaxCandidates == 2

Platforms == {"linux", "darwin", "freebsd", "win32"}

\* The candidates parseUnixOutput and parseWindowsOutput can yield:
\* extensionPort is 0 when the launch arguments declare none
CandidatePool ==
    { [pid |-> 101, extensionPort |-> 0, csrfToken |-> "tokA"],
      [pid |-> 102, extensionPort |-> 7002, csrfToken |-> "tokB"] }

CandidateSeqs ==
    { s \in UNION { [1..n -> CandidatePool] : n \in 0..MaxCandidates } :
          \A i, j \in DOMAIN s : i # j => s[i].pid # s[j].pid }

Ports == {7001, 7002}

\* The listening ports in the order in which lsof, ss or netstat prints them
PortListings ==
    {<<>>} \cup { <<p>> : p \in Ports } \cup { <<p, q>> : <<p, q>> \in Ports \X Ports }

\* How a port test ends: a response with its HTTP status, a refused
\* connection, or no answer until the abort after 2000 ms
ProbeOutcomes ==
    { [kind |-> "response", status |-> s] : s \in {200, 204, 401} }
        \cup { [kind |-> "refused", status |-> 0], [kind |-> "timeout", status |-> 0] }

\* How the process-listing command ends: "ok" with output, "no_match" when
\* grep exits 1 on no line, "denied" when ps cannot run and the pipeline exits
\* non-zero, "killed" by the timeout option, "spawn_error" when the shell
\* cannot be started
ListingOutcomes(platform) ==
    IF platform = "win32"
    THEN {"ok", "denied", "killed", "spawn_error"}
    ELSE {"ok", "no_match", "denied", "killed", "spawn_error"}

ListingFailures == {"denied", "killed", "spawn_error"}

\* child_process.exec: the message of the error execAsync rejects with
execErrorMessage(outcome) ==
    IF outcome = "spawn_error" THEN "spawn EAGAIN" ELSE "Command failed"

RangeOf(seq) == { seq[i] : i \in DOMAIN seq }

RECURSIVE sortAscending(_)
sortAscending(S) ==
    IF S = {} THEN <<>>
    ELSE LET lo == CHOOSE x \in S : \A y \in S : x <= y
         IN <<lo>> \o sortAscending(S \ {lo})

RECURSIVE dedup(_)
dedup(seq) ==
    IF seq = <<>> THEN <<>>
    ELSE LET front == dedup(SubSeq(seq, 1, Len(seq) - 1))
             last == seq[Len(seq)]
         IN IF last \in RangeOf(front) THEN front ELSE Append(front, last)

\* Variant that keeps the order of the listing.
parsePorts_Unsorted(listed) == dedup(listed)

\* parseLsofPorts, parseSsPorts: each port once, ascending
parsePorts(listed) == sortAscending(RangeOf(listed))

\* getAllListeningPorts: lsof on darwin; on linux ss and, when ss fails, lsof;
\* [] on another platform and when the (last) command fails
getAllListeningPorts(platform, cmdFailed, listed) ==
    IF platform \notin {"darwin", "linux"} \/ cmdFailed THEN <<>>
    ELSE parsePorts(listed)

\* Variant that accepts every 2xx status (response.ok).
testPort_AnyOk(outcome) ==
    outcome.kind = "response" /\ outcome.status >= 200 /\ outcome.status <= 299

\* testPort: response.status === 200, false on any exception
testPort(outcome) == outcome.kind = "response" /\ outcome.status = 200

\* findWindowsListeningPort: 0 stands for null
findWindowsListeningPort(extensionPort, cmdFailed, listed) ==
    IF cmdFailed THEN (IF extensionPort > 0 THEN extensionPort ELSE 0)
    ELSE LET ports == dedup(listed)
         IN IF extensionPort > 0 /\ extensionPort \in RangeOf(ports) THEN extensionPort
            ELSE IF ports # <<>> THEN ports[1]
            ELSE IF extensionPort > 0 THEN extensionPort ELSE 0

DetectionSuccess(candidate, port) ==
    [success |-> TRUE, pid |-> candidate.pid, port |-> port,
     csrfToken |-> candidate.csrfToken]

DetectionFailure(message) == [success |-> FALSE, error |-> message]

DetectorDone(d, result) == [d EXCEPT !.pc = "done", !.result = result]

\* detectUnix 72-96, detectWindows 293-312: the loop goes to candidate k, or
\* returns the failure after the last one
nextCandidate(d, k) ==
    IF k <= Len(d.candidates)
    THEN [d EXCEPT !.pc = "ports", !.k = k, !.ports = <<>>, !.j = 0]
    ELSE DetectorDone(d, DetectionFailure(
             IF d.platform = "win32"
             THEN "Language Server found but cannot find listening port"
             ELSE "Language Server found but no port responds to API"))

\* detectUnix 76-89: the loop goes to port j of the candidate, or to the next
\* candidate after its last port
nextPort(d, j) ==
    IF j <= Len(d.ports)
    THEN [d EXCEPT !.pc = "testing", !.j = j]
    ELSE nextCandidate(d, d.k + 1)

\* detectAntigravityServer: called on a platform, the listing command started
DetectStart(platform) ==
    /\ detector.pc = "idle"
    /\ detector' = [pc |-> "listing", platform |-> platform, listing |-> "none",
                    candidates |-> <<>>, k |-> 0, ports |-> <<>>, j |-> 0,
                    tested200 |-> {}, enumerated |-> <<>>, probes |-> <<>>,
                    result |-> <<>>]
    /\ UNCHANGED <<vars, estimator, fetcher, server, config, http>>

\* detectUnix 56-69 and 97-108, detectWindows 277-290 and 313-315, with the
\* catch of detectAntigravityServer 41-47
detectListed(d, outcome, candidates) ==
    LET d1 == [d EXCEPT !.listing = outcome,
                        !.candidates = IF outcome = "ok" THEN candidates ELSE <<>>]
    IN IF outcome = "ok"
       THEN IF Len(candidates) = 0
            THEN DetectorDone(d1, DetectionFailure("No Antigravity Language Server found"))
            ELSE nextCandidate(d1, 1)
       ELSE IF d.platform # "win32" /\ (outcome = "killed" \/ execErrorMessage(outcome) = "Command failed")
            THEN DetectorDone(d1, DetectionFailure("No Antigravity Language Server process found"))
            ELSE DetectorDone(d1, DetectionFailure(execErrorMessage(outcome)))

ListingDone(outcome, candidates) ==
    /\ detector.pc = "listing"
    /\ outcome \in ListingOutcomes(detector.platform)
    /\ detector' = detectListed(detector, outcome, candidates)
    /\ UNCHANGED <<vars, estimator, fetcher, server, config, http>>

\* What the prober was given and what it handed over, for one candidate
Enumeration(cmdFailed, listed, handed) ==
    [cmdFailed |-> cmdFailed, listed |-> listed, handed |-> handed]

\* Variant in which a failed port listing ends the detection.
detectPorts_AbortsOnFailure(d, cmdFailed, listed) ==
    LET candidate == d.candidates[d.k]
    IN IF cmdFailed
       THEN DetectorDone(d, DetectionFailure("Language Server found but no port responds to API"))
       ELSE IF d.platform = "win32"
       THEN LET port == findWindowsListeningPort(candidate.extensionPort, cmdFailed, listed)
                d1 == [d EXCEPT !.enumerated = Append(@, Enumeration(cmdFailed, listed,
                                     IF port # 0 THEN <<port>> ELSE <<>>))]
            IN IF port # 0
               THEN DetectorDone(d1, DetectionSuccess(candidate, port))
               ELSE nextCandidate(d1, d.k + 1)
       ELSE LET ports == getAllListeningPorts(d.platform, cmdFailed, listed)
            IN nextPort([d EXCEPT !.ports = ports,
                                  !.enumerated = Append(@, Enumeration(cmdFailed, listed, ports))], 1)

\* detectUnix 73-76: getAllListeningPorts returned for candidate k;
\* detectWindows 294-305: findWindowsListeningPort returned for candidate k
detectPorts(d, cmdFailed, listed) ==
    LET candidate == d.candidates[d.k]
    IN IF d.platform = "win32"
       THEN LET port == findWindowsListeningPort(candidate.extensionPort, cmdFailed, listed)
                d1 == [d EXCEPT !.enumerated = Append(@, Enumeration(cmdFailed, listed,
                                     IF port # 0 THEN <<port>> ELSE <<>>))]
            IN IF port # 0
               THEN DetectorDone(d1, DetectionSuccess(candidate, port))
               ELSE nextCandidate(d1, d.k + 1)
       ELSE LET ports == getAllListeningPorts(d.platform, cmdFailed, listed)
            IN nextPort([d EXCEPT !.ports = ports,
                                  !.enumerated = Append(@, Enumeration(cmdFailed, listed, ports))], 1)

\* The first listing command for candidate k has ended (lsof on darwin, ss on
\* linux, netstat on win32).  On linux a failed ss (grep exits 1 when ss
\* prints no line of the pid) is followed by lsof, which is awaited in turn.
\* On a platform other than darwin, linux and win32 no listing command is run
PortsDone(cmdFailed, listed) ==
    /\ detector.pc = "ports"
    /\ detector.platform \in {"darwin", "linux", "win32"} \/ (listed = <<>> /\ ~cmdFailed)
    /\ detector' = IF detector.platform = "linux" /\ cmdFailed
                   THEN [detector EXCEPT !.pc = "lsof"]
                   ELSE detectPorts(detector, cmdFailed, listed)
    /\ UNCHANGED <<vars, estimator, fetcher, server, config, http>>

\* getAllListeningPorts 178-185 on linux: the lsof started in the catch of
\* the failed ss has ended
LsofDone(cmdFailed, listed) ==
    /\ detector.pc = "lsof"
    /\ detector' = detectPorts(detector, cmdFailed, listed)
    /\ UNCHANGED <<vars, estimator, fetcher, server, config, http>>

\* detectUnix 77-88: testPort returned for port j of candidate k
detectTested(d, outcome) ==
    LET candidate == d.candidates[d.k]
        port == d.ports[d.j]
        isWorking == testPort(outcome)
        d1 == [d EXCEPT !.probes = Append(@, [k |-> d.k, port |-> port,
                                              csrfToken |-> candidate.csrfToken,
                                              outcome |-> outcome,
                                              isWorking |-> isWorking])]
    IN IF isWorking
       THEN DetectorDone([d1 EXCEPT !.tested200 = @ \cup {<<candidate.pid, port, candidate.csrfToken>>}],
                         DetectionSuccess(candidate, port))
       ELSE nextPort(d1, d.j + 1)

\* testPort: the fetch settles before the abort (a response or a refused
\* connection)
TestDone(outcome) ==
    /\ detector.pc = "testing"
    /\ outcome.kind # "timeout"
    /\ detector' = detectTested(detector, outcome)
    /\ UNCHANGED <<vars, estimator, fetcher, server, config, http>>

\* testPort: the port accepted the connection and does not answer
TestHangs ==
    /\ detector.pc = "testing"
    /\ detector' = [detector EXCEPT !.pc = "hung"]
    /\ UNCHANGED <<vars, estimator, fetcher, server, config, http>>

\* Variant without the abort timer.
TestAborted_NoTimer ==
    /\ FALSE
    /\ UNCHANGED allVars

\* testPort: setTimeout(() => controller.abort(), 2000) fires, the fetch
\* rejects and the catch returns false
TestAborted ==
    /\ detector.pc = "hung"
    /\ detector' = detectTested(detector, [kind |-> "timeout", status |-> 0])
    /\ UNCHANGED <<vars, estimator, fetcher, server, config, http>>

InitDetect == Init /\ ~authenticated /\ ~rankMode

NextDetect ==
    \/ \E p \in Platforms : DetectStart(p)
    \/ \E o \in {"ok", "no_match", "denied", "killed", "spawn_error"}, c \in CandidateSeqs : ListingDone(o, c)
    \/ \E f \in BOOLEAN, l \in PortListings : PortsDone(f, l)
    \/ \E f \in BOOLEAN, l \in PortListings : LsofDone(f, l)
    \/ \E o \in ProbeOutcomes : TestDone(o)
    \/ TestHangs
    \/ TestAborted

SpecDetect == InitDetect /\ [][NextDetect]_allVars

\* The event loop runs every callback that is due: the exit handlers of the
\* commands, the settled fetches and the abort timers
SpecDetectFair == SpecDetect /\ WF_allVars(NextDetect)

---------------------------------------------------------------------------
(* JavaScript numbers: IEEE 754 doubles and their arithmetic *)

\* A natural number is kept as the sequence of its digits to the base
\* LimbBase, lowest digit first, without leading zero digits
LimbBits == 5 + 5

LimbBase == 2 ^ LimbBits

RECURSIVE NatLimbs(_)
NatLimbs(n) == IF n = 0 THEN <<>> ELSE <<n % LimbBase>> \o NatLimbs(n \div LimbBase)

\* The value of a sequence of at most three digits
RECURSIVE LimbsNat(_)
LimbsNat(b) == IF b = <<>> THEN 0 ELSE b[1] + LimbBase * LimbsNat(Tail(b))

Limb(n, i) == IF i \in DOMAIN n THEN n[i] ELSE 0

Highest(S) == CHOOSE i \in S : \A j \in S : j <= i

Lowest(S) == CHOOSE i \in S : \A j \in S : i <= j

Larger(a, b) == IF a > b THEN a ELSE b

TrimLimbs(b) ==
    IF \A i \in DOMAIN b : b[i] = 0 THEN <<>>
    ELSE SubSeq(b, 1, Highest({ i \in DOMAIN b : b[i] # 0 }))

\* The digits with the carry out of them put on top
WithCarry(r) == TrimLimbs(r.limbs \o NatLimbs(r.carry))

\* A quotient whose digits were found from the highest down
QuotientOf(r) == [q |-> TrimLimbs([i \in 1..Len(r.q) |-> r.q[Len(r.q) + 1 - i]]), r |-> r.r]

\* The digits of b * c + carry for the digits lo..hi of b, and the carry out
\* of them; c is below 2^20
RECURSIVE TimesCarry(_, _, _, _, _)
TimesCarry(b, lo, hi, c, carry) ==
    IF lo > hi THEN [limbs |-> <<>>, carry |-> carry]
    ELSE IF lo = hi
    THEN [limbs |-> <<(b[lo] * c + carry) % LimbBase>>,
          carry |-> (b[lo] * c + carry) \div LimbBase]
    ELSE LET low == TimesCarry(b, lo, (lo + hi) \div 2, c, carry)
             high == TimesCarry(b, (lo + hi) \div 2 + 1, hi, c, low.carry)
         IN [limbs |-> low.limbs \o high.limbs, carry |-> high.carry]

LimbsTimes(b, c, carry) ==
    IF b = <<>> THEN NatLimbs(carry) ELSE WithCarry(TimesCarry(b, 1, Len(b), c, carry))

\* Quotient (its digits from the highest down) and remainder of the digits
\* lo..hi of b, preceded by the remainder r of the digits above them, by d; d is
\* below 2^20
RECURSIVE DivideRem(_, _, _, _, _)
DivideRem(b, lo, hi, d, r) ==
    IF lo > hi THEN [q |-> <<>>, r |-> r]
    ELSE IF lo = hi
    THEN [q |-> <<(r * LimbBase + b[lo]) \div d>>, r |-> (r * LimbBase + b[lo]) % d]
    ELSE LET high == DivideRem(b, (lo + hi) \div 2 + 1, hi, d, r)
             low == DivideRem(b, lo, (lo + hi) \div 2, d, high.r)
         IN [q |-> high.q \o low.q, r |-> low.r]

LimbsDivide(b, d) == QuotientOf(DivideRem(b, 1, Len(b), d, 0))

\* The digits lo..hi of a + sign * b + carry, and the carry (or borrow, -1)
\* out of them
RECURSIVE PlusCarry(_, _, _, _, _, _)
PlusCarry(a, b, sign, lo, hi, carry) ==
    IF lo > hi THEN [limbs |-> <<>>, carry |-> carry]
    ELSE IF lo = hi
    THEN IF Limb(a, lo) + sign * Limb(b, lo) + carry < 0
         THEN [limbs |-> <<Limb(a, lo) + sign * Limb(b, lo) + carry + LimbBase>>,
               carry |-> 0 - 1]
         ELSE [limbs |-> <<(Limb(a, lo) + sign * Limb(b, lo) + carry) % LimbBase>>,
               carry |-> (Limb(a, lo) + sign * Limb(b, lo) + carry) \div LimbBase]
    ELSE LET low == PlusCarry(a, b, sign, lo, (lo + hi) \div 2, carry)
             high == PlusCarry(a, b, sign, (lo + hi) \div 2 + 1, hi, low.carry)
         IN [limbs |-> low.limbs \o high.limbs, carry |-> high.carry]

LimbsPlus(a, b) == WithCarry(PlusCarry(a, b, 1, 1, Larger(Len(a), Len(b)), 0))

\* a - b, for a >= b
LimbsMinus(a, b) == TrimLimbs(PlusCarry(a, b, 0 - 1, 1, Len(a), 0).limbs)

LimbsLess(a, b) ==
    LET differ == { i \in 1..Larger(Len(a), Len(b)) : Limb(a, i) # Limb(b, i) }
    IN differ # {} /\ Limb(a, Highest(differ)) < Limb(b, Highest(differ))

\* a * b, for b of few digits
RECURSIVE LimbsProduct(_, _)
LimbsProduct(a, b) ==
    IF a = <<>> \/ b = <<>> THEN <<>>
    ELSE LimbsPlus(LimbsTimes(a, b[1], 0), <<0>> \o LimbsProduct(a, Tail(b)))

\* The binary digit of n at position i, the lowest position being 1
BitAt(n, i) == (Limb(n, (i - 1) \div LimbBits + 1) \div 2 ^ ((i - 1) % LimbBits)) % 2

\* The number of binary digits of n
BitLength(n) ==
    IF n = <<>> THEN 0
    ELSE (Len(n) - 1) * LimbBits
            + (CHOOSE k \in 1..LimbBits : 2 ^ (k - 1) <= n[Len(n)] /\ n[Len(n)] < 2 ^ k)

\* n mod 2^k is not zero
LowBitsSet(n, k) ==
    \/ \E i \in 1..(k \div LimbBits) : Limb(n, i) # 0
    \/ Limb(n, k \div LimbBits + 1) % 2 ^ (k % LimbBits) # 0

\* The number of zero binary digits below the lowest one of n # 0
TrailingZeros(n) ==
    LET first == Lowest({ i \in DOMAIN n : n[i] # 0 })
    IN (first - 1) * LimbBits
            + (CHOOSE k \in 0..(LimbBits - 1) : n[first] % 2 ^ (k + 1) = 2 ^ k)

ShiftRight(n, k) ==
    TrimLimbs([t \in 1..(Len(n) - k \div LimbBits) |->
                  Limb(n, k \div LimbBits + t) \div 2 ^ (k % LimbBits)
                      + (Limb(n, k \div LimbBits + t + 1) % 2 ^ (k % LimbBits))
                            * 2 ^ (LimbBits - (k % LimbBits))])

ShiftLeft(n, k) ==
    IF n = <<>> THEN <<>>
    ELSE [t \in 1..(k \div LimbBits) |-> 0] \o LimbsTimes(n, 2 ^ (k % LimbBits), 0)

\* The digit q with b * q <= rem < b * (q + 1), which is the estimate or next
\* to it
QuotientDigit(rem, b, estimate) ==
    CHOOSE q \in {estimate - 1, estimate, estimate + 1} :
        /\ q >= 0
        /\ ~LimbsLess(rem, LimbsTimes(b, q, 0))
        /\ LimbsLess(rem, LimbsTimes(b, q + 1, 0))

DigitAndRest(rem, b, digit) ==
    [q |-> <<digit>>, r |-> LimbsMinus(rem, LimbsTimes(b, digit, 0))]

\* One digit of a quotient by b # 0, estimated from the binary digits of rem
\* and b above position t, which are twenty of b
DivideDigit(rem, b, t) ==
    DigitAndRest(rem, b,
        QuotientDigit(rem, b, LimbsNat(ShiftRight(rem, t)) \div LimbsNat(ShiftRight(b, t))))

\* Quotient (its digits from the highest down) and remainder of the digits
\* lo..hi of a, preceded by the remainder r of the digits above them, by b # 0
RECURSIVE LongDivideRem(_, _, _, _, _)
LongDivideRem(a, lo, hi, b, r) ==
    IF lo > hi THEN [q |-> <<>>, r |-> r]
    ELSE IF lo = hi
    THEN DivideDigit(TrimLimbs(<<a[lo]>> \o r), b, Larger(BitLength(b) - 20, 0))
    ELSE LET high == LongDivideRem(a, (lo + hi) \div 2 + 1, hi, b, r)
             low == LongDivideRem(a, lo, (lo + hi) \div 2, b, high.r)
         IN [q |-> high.q \o low.q, r |-> low.r]

LongDivide(a, b) == QuotientOf(LongDivideRem(a, 1, Len(a), b, <<>>))

\* n * 10^k
RECURSIVE TimesPowerOfTen(_, _)
TimesPowerOfTen(n, k) ==
    IF k <= 6 THEN LimbsTimes(n, 10 ^ k, 0)
    ELSE LET half == TimesPowerOfTen(n, k \div 2)
         IN IF half = <<>> THEN <<>> ELSE TimesPowerOfTen(half, k - k \div 2)

\* Quotient of n by 10^k, and whether it left a remainder
RECURSIVE DivideByPowerOfTen(_, _)
DivideByPowerOfTen(n, k) ==
    IF k <= 6 THEN LimbsDivide(n, 10 ^ k)
    ELSE LET first == DivideByPowerOfTen(n, k \div 2)
         IN IF first.r # 0
            THEN [q |-> DivideByPowerOfTen(first.q, k - k \div 2).q, r |-> 1]
            ELSE DivideByPowerOfTen(first.q, k - k \div 2)

\* A double is NaN, an infinity, or (-1)^neg * m * 2^e with m odd and below
\* 2^53 (a zero has m = <<>> and e = 0)
DoubleNaN == [nan |-> TRUE, inf |-> FALSE, neg |-> FALSE, m |-> <<>>, e |-> 0]

DoubleInfinity(neg) == [nan |-> FALSE, inf |-> TRUE, neg |-> neg, m |-> <<>>, e |-> 0]

DoubleZero(neg) == [nan |-> FALSE, inf |-> FALSE, neg |-> neg, m |-> <<>>, e |-> 0]

IsZero(x) == ~x.nan /\ ~x.inf /\ x.m = <<>>

\* (-1)^neg * m * 2^e for m below 2^53: an infinity from 2^1024 on
DoubleOf(neg, m, e) ==
    IF m = <<>> THEN DoubleZero(neg)
    ELSE IF BitLength(m) + e > 1024 THEN DoubleInfinity(neg)
    ELSE [nan |-> FALSE, inf |-> FALSE, neg |-> neg,
          m |-> ShiftRight(m, TrailingZeros(m)), e |-> e + TrailingZeros(m)]

\* n * 2^e with the k lowest binary digits of n rounded away, a tie going to
\* the even significand
RoundAt(neg, n, e, sticky, k) ==
    IF k <= 0 THEN DoubleOf(neg, n, e)
    ELSE IF BitAt(n, k) = 1 /\ (sticky \/ LowBitsSet(n, k - 1) \/ BitAt(n, k + 1) = 1)
    THEN DoubleOf(neg, LimbsPlus(ShiftRight(n, k), <<1>>), e + k)
    ELSE DoubleOf(neg, ShiftRight(n, k), e + k)

\* The double nearest to (-1)^neg * limbs * 2^e, where sticky tells that the
\* exact value lies beyond limbs * 2^e by less than 2^e: 53 binary digits are
\* kept, fewer below 2^-1022, where the digits under 2^-1074 are rounded away
RoundTrimmed(neg, n, e, sticky) ==
    RoundAt(neg, n, e, sticky, Larger(BitLength(n) - 53, (0 - 1074) - e))

RoundToDouble(neg, limbs, e, sticky) == RoundTrimmed(neg, TrimLimbs(limbs), e, sticky)

RoundQuotient(neg, quotient, e) == RoundToDouble(neg, quotient.q, e, quotient.r # 0)

\* The double of the decimal (-1)^neg * digits * 10^exponent
DoubleOfDecimal(neg, digits, exponent) ==
    IF digits = <<>> THEN DoubleZero(neg)
    ELSE IF exponent > 310 THEN DoubleInfinity(neg)
    ELSE IF exponent < 0 - (350 + 4 * BitLength(digits)) THEN DoubleZero(neg)
    ELSE IF exponent >= 0
    THEN RoundQuotient(neg, [q |-> TimesPowerOfTen(digits, exponent), r |-> 0], 0)
    ELSE RoundQuotient(neg,
                       DivideByPowerOfTen(ShiftLeft(digits, 56 + 4 * (0 - exponent)),
                                          0 - exponent),
                       0 - (56 + 4 * (0 - exponent)))

DoubleOfNat(n) == DoubleOf(FALSE, NatLimbs(n), 0)

DoubleNegated(x) == IF x.nan THEN x ELSE [x EXCEPT !.neg = ~x.neg]

\* (-1)^xneg * a + (-1)^yneg * b, times 2^e
SignedSum(xneg, a, yneg, b, e) ==
    IF xneg # yneg /\ a = b THEN DoubleZero(FALSE)
    ELSE RoundToDouble(IF xneg = yneg \/ LimbsLess(b, a) THEN xneg ELSE yneg,
                       IF xneg = yneg THEN LimbsPlus(a, b)
                       ELSE IF LimbsLess(a, b) THEN LimbsMinus(b, a)
                       ELSE LimbsMinus(a, b),
                       e, FALSE)

AlignedSum(x, y, e) ==
    SignedSum(x.neg, ShiftLeft(x.m, x.e - e), y.neg, ShiftLeft(y.m, y.e - e), e)

\* x + y
DoublePlus(x, y) ==
    IF x.nan \/ y.nan THEN DoubleNaN
    ELSE IF x.inf /\ y.inf THEN (IF x.neg = y.neg THEN x ELSE DoubleNaN)
    ELSE IF x.inf THEN x
    ELSE IF y.inf THEN y
    ELSE IF x.m = <<>> /\ y.m = <<>> THEN DoubleZero(x.neg /\ y.neg)
    ELSE AlignedSum(x, y, IF x.e < y.e THEN x.e ELSE y.e)

\* x - y
DoubleMinus(x, y) == DoublePlus(x, DoubleNegated(y))

\* x * y
DoubleTimes(x, y) ==
    IF x.nan \/ y.nan THEN DoubleNaN
    ELSE IF (x.inf /\ IsZero(y)) \/ (IsZero(x) /\ y.inf) THEN DoubleNaN
    ELSE IF x.inf \/ y.inf THEN DoubleInfinity(x.neg # y.neg)
    ELSE RoundToDouble(x.neg # y.neg, LimbsProduct(x.m, y.m), x.e + y.e, FALSE)

RoundLongQuotient(neg, quotient, e) ==
    RoundToDouble(neg, quotient.q, e, quotient.r # <<>>)

\* The quotient of x * 2^s by y, rounded
ShiftedQuotient(x, y, s) ==
    RoundLongQuotient(x.neg # y.neg, LongDivide(ShiftLeft(x.m, s), y.m), x.e - y.e - s)

\* x / y
DoubleDividedBy(x, y) ==
    IF x.nan \/ y.nan THEN DoubleNaN
    ELSE IF (x.inf /\ y.inf) \/ (IsZero(x) /\ IsZero(y)) THEN DoubleNaN
    ELSE IF x.inf \/ IsZero(y) THEN DoubleInfinity(x.neg # y.neg)
    ELSE IF y.inf \/ IsZero(x) THEN DoubleZero(x.neg # y.neg)
    ELSE ShiftedQuotient(x, y, Larger(56 + BitLength(y.m) - BitLength(x.m), 0))

\* a * 2^(x.e - e) < b * 2^(y.e - e) for the magnitudes of x and y
MagnitudeLess(x, y, e) == LimbsLess(ShiftLeft(x.m, x.e - e), ShiftLeft(y.m, y.e - e))

\* x < y
DoubleLess(x, y) ==
    IF x.nan \/ y.nan THEN FALSE
    ELSE IF IsZero(x) /\ IsZero(y) THEN FALSE
    ELSE IF x.neg # y.neg THEN x.neg
    ELSE IF x.inf \/ y.inf THEN (IF x.neg THEN ~y.inf ELSE ~x.inf)
    ELSE IF x.neg THEN MagnitudeLess(y, x, IF x.e < y.e THEN x.e ELSE y.e)
    ELSE MagnitudeLess(x, y, IF x.e < y.e THEN x.e ELSE y.e)

\* Math.round(x) for a finite x of magnitude below 2^30, as an integer: the
\* integer nearest to x, a half going upwards
MathRoundDouble(x) ==
    IF x.e >= 0
    THEN (IF x.neg THEN 0 - 1 ELSE 1) * LimbsNat(ShiftLeft(x.m, x.e))
    ELSE IF ~x.neg
    THEN LimbsNat(ShiftRight(x.m, 0 - x.e)) + BitAt(x.m, 0 - x.e)
    ELSE 0 - (LimbsNat(ShiftRight(x.m, 0 - x.e))
                + (IF BitAt(x.m, 0 - x.e) = 1 /\ LowBitsSet(x.m, (0 - x.e) - 1)
                   THEN 1 ELSE 0))

---------------------------------------------------------------------------
(* Number(): the texts of a JSON reply converted to numbers *)

\* Texts are sequences of characters
DecimalDigits == {"0", "1", "2", "3", "4", "5", "6", "7", "8", "9"}

HexDigits == DecimalDigits \cup {"a", "b", "c", "d", "e", "f", "A", "B", "C", "D", "E", "F"}

\* StrWhiteSpaceChar: the white space and the line terminators of the
\* language; a character that has no escape here is written as its code point
WhiteSpace ==
    {" ", "\t", "\n", "\r", "\f", "U+000B", "U+00A0", "U+FEFF", "U+1680",
     "U+2000", "U+2001", "U+2002", "U+2003", "U+2004", "U+2005", "U+2006",
     "U+2007", "U+2008", "U+2009", "U+200A", "U+202F", "U+205F", "U+3000",
     "U+2028", "U+2029"}

DigitValue(c) ==
    CASE c = "0" -> 0 [] c = "1" -> 1 [] c = "2" -> 2 [] c = "3" -> 3
      [] c = "4" -> 4 [] c = "5" -> 5 [] c = "6" -> 6 [] c = "7" -> 7
      [] c = "8" -> 8 [] c = "9" -> 9
      [] c \in {"a", "A"} -> 10 [] c \in {"b", "B"} -> 11 [] c \in {"c", "C"} -> 12
      [] c \in {"d", "D"} -> 13 [] c \in {"e", "E"} -> 14 [] c \in {"f", "F"} -> 15

\* The number written with the digits lo..hi of chars, to the base ten when
\* bits = 0 and to the base 2^bits otherwise
RECURSIVE DigitsLimbs(_, _, _, _)
DigitsLimbs(chars, lo, hi, bits) ==
    IF lo > hi THEN <<>>
    ELSE IF lo = hi THEN NatLimbs(DigitValue(chars[lo]))
    ELSE LET high == DigitsLimbs(chars, lo, (lo + hi) \div 2, bits)
             low == DigitsLimbs(chars, (lo + hi) \div 2 + 1, hi, bits)
         IN IF high = <<>> THEN low
            ELSE LimbsPlus(IF bits = 0 THEN TimesPowerOfTen(high, hi - (lo + hi) \div 2)
                           ELSE ShiftLeft(high, bits * (hi - (lo + hi) \div 2)),
                           low)

\* The number of characters of chars from position from on that belong to set
RunLength(chars, from, set) ==
    IF \A i \in from..Len(chars) : chars[i] \in set THEN Len(chars) + 1 - from
    ELSE Lowest({ i \in from..Len(chars) : chars[i] \notin set }) - from

\* The value of the decimal digits of an exponent, and 100000 for every value
\* from 100000 on
ExponentValue(chars) ==
    IF Len(chars) - RunLength(chars, 1, {"0"}) > 5 THEN 100000
    ELSE LimbsNat(DigitsLimbs(chars, RunLength(chars, 1, {"0"}) + 1, Len(chars), 0))

\* The exponent that digits denote, <<>> when they are no decimal digits
SignedExponent(digits, negative) ==
    IF digits = <<>> \/ RunLength(digits, 1, DecimalDigits) # Len(digits) THEN <<>>
    ELSE IF negative THEN <<0 - ExponentValue(digits)>>
    ELSE <<ExponentValue(digits)>>

\* The exponent that the text after the mantissa denotes: 0 for no text, <<>>
\* for a text that is no exponent part
ExponentOf(rest) ==
    IF rest = <<>> THEN <<0>>
    ELSE IF rest[1] \notin {"e", "E"} THEN <<>>
    ELSE IF Len(rest) > 1 /\ rest[2] \in {"+", "-"}
    THEN SignedExponent(SubSeq(rest, 3, Len(rest)), rest[2] = "-")
    ELSE SignedExponent(Tail(rest), FALSE)

ScaledToNumber(neg, digits, fraction, exponent) ==
    IF exponent = <<>> THEN DoubleNaN
    ELSE DoubleOfDecimal(neg, DigitsLimbs(digits, 1, Len(digits), 0), exponent[1] - fraction)

\* A decimal literal with whole digits before the point and fraction digits
\* from position start on; one of the two parts may be missing
MantissaToNumber(text, neg, whole, start, fraction) ==
    IF whole + fraction = 0 THEN DoubleNaN
    ELSE ScaledToNumber(neg,
                        SubSeq(text, 1, whole) \o SubSeq(text, start, start + fraction - 1),
                        fraction,
                        ExponentOf(SubSeq(text, start + fraction, Len(text))))

\* The length of the point after the whole digits of text, and the number of
\* digits after it
PointLength(text, whole) == IF whole < Len(text) /\ text[whole + 1] = "." THEN 1 ELSE 0

FractionLength(text, whole) ==
    IF whole < Len(text) /\ text[whole + 1] = "."
    THEN RunLength(text, whole + 2, DecimalDigits)
    ELSE 0

DecimalToNumber(text, neg, whole) ==
    MantissaToNumber(text, neg, whole, whole + 1 + PointLength(text, whole),
                     FractionLength(text, whole))

\* A literal to the base 2^bits after its prefix of two characters
BasedToNumber(text, digits, bits) ==
    IF Len(text) > 2 /\ RunLength(text, 3, digits) = Len(text) - 2
    THEN RoundToDouble(FALSE, DigitsLimbs(text, 3, Len(text), bits), 0, FALSE)
    ELSE DoubleNaN

\* StringToNumber for a text without white space around it and without its
\* sign: Infinity, a literal to the base 16, 8 or 2 (not after a sign), or
\* decimal digits with an optional point and an optional exponent; NaN
\* otherwise
UnsignedToNumber(text, neg, signed) ==
    IF text = <<"I", "n", "f", "i", "n", "i", "t", "y">> THEN DoubleInfinity(neg)
    ELSE IF Len(text) > 1 /\ text[1] = "0" /\ text[2] \in {"x", "X", "o", "O", "b", "B"}
    THEN IF signed THEN DoubleNaN
         ELSE BasedToNumber(text,
                            IF text[2] \in {"x", "X"} THEN HexDigits
                            ELSE IF text[2] \in {"o", "O"}
                            THEN {"0", "1", "2", "3", "4", "5", "6", "7"}
                            ELSE {"0", "1"},
                            IF text[2] \in {"x", "X"} THEN 4
                            ELSE IF text[2] \in {"o", "O"} THEN 3
                            ELSE 1)
    ELSE DecimalToNumber(text, neg, RunLength(text, 1, DecimalDigits))

SignedToNumber(text) ==
    UnsignedToNumber(IF text[1] \in {"+", "-"} THEN Tail(text) ELSE text,
                     text[1] = "-", text[1] \in {"+", "-"})

\* StringToNumber: white space around the text is dropped, the empty text is 0
StringToNumber(chars) ==
    IF \A i \in DOMAIN chars : chars[i] \in WhiteSpace THEN DoubleZero(FALSE)
    ELSE SignedToNumber(SubSeq(chars,
                               Lowest({ i \in DOMAIN chars : chars[i] \notin WhiteSpace }),
                               Highest({ i \in DOMAIN chars : chars[i] \notin WhiteSpace })))

---------------------------------------------------------------------------
(* The token estimator: TokenEstimator.updateFromModels *)

MaxUpdates == 3

\* Percentages are written in thousandths of a percent: 105 is the number
\* 0.105, the nearest double to that decimal
PercentScale == 1000

Percentages == {100000, 60000, 105, 0}

TIER_QUOTAS ==
    [ ultra |-> [gemini_flash |-> 1000000, gemini_pro |-> 500000, claude |-> 300000],
      pro |-> [gemini_flash |-> 500000, gemini_pro |-> 250000, claude |-> 150000],
      free |-> [gemini_flash |-> 100000, gemini_pro |-> 50000, claude |-> 30000],
      default |-> [gemini_flash |-> 200000, gemini_pro |-> 100000, claude |-> 60000] ]

\* The model ids fed to the estimator, each with the words its lower-case
\* form includes
ModelWords ==
    [ gemini_3_flash |-> {"gemini", "flash", "gemini-3-flash"},
      claude_sonnet_4 |-> {"claude"},
      gpt_oss_120b |-> {} ]

ModelIds == DOMAIN ModelWords

\* The tiers passed to the estimator: the key of TIER_QUOTAS each is equal to
\* ("none" when it is no key) and the words its lower-case form includes
TierTable ==
    [ undefined |-> [key |-> "none", words |-> {}],
      Free |-> [key |-> "free", words |-> {"free"}],
      Google_AI_Ultra_Trial |-> [key |-> "none", words |-> {"ultra"}] ]

Tiers == DOMAIN TierTable

\* categorizeModel
categorizeModel(modelId) ==
    LET lower == ModelWords[modelId]
    IN IF "flash" \in lower \/ "gemini-2.0-flash" \in lower \/ "gemini-3-flash" \in lower
       THEN "gemini_flash"
       ELSE IF "gemini" \in lower /\ ("pro" \in lower \/ "2.5" \in lower \/ "exp" \in lower)
       THEN "gemini_pro"
       ELSE IF "claude" \in lower \/ "anthropic" \in lower
       THEN "claude"
       ELSE IF "gemini" \in lower
       THEN "gemini_flash"
       ELSE "unknown"

\* getTierQuotaConfig
getTierQuotaConfig(tier) ==
    IF tier = "undefined" THEN TIER_QUOTAS["default"]
    ELSE IF TierTable[tier].key # "none" THEN TIER_QUOTAS[TierTable[tier].key]
    ELSE IF "ultra" \in TierTable[tier].words THEN TIER_QUOTAS["ultra"]
    ELSE IF "pro" \in TierTable[tier].words THEN TIER_QUOTAS["pro"]
    ELSE IF "free" \in TierTable[tier].words THEN TIER_QUOTAS["free"]
    ELSE TIER_QUOTAS["default"]

\* Every quota of TIER_QUOTAS is a multiple of QuotaUnit: the exact products
\* below are formed with the quota and the divisor both divided by it
QuotaUnit == 10000

\* The integer nearest to the non-negative quotient n / d, halves upwards
MathRound(n, d) == (2 * n + d) \div (2 * d)

estimateTokensFromDelta_RoundsDown(previousPercentage, currentPercentage, category, tier) ==
    IF currentPercentage >= previousPercentage THEN 0
    ELSE IF currentPercentage > previousPercentage + 50 * PercentScale THEN 0
    ELSE LET deltaPercentage == previousPercentage - currentPercentage
             quotaConfig == getTierQuotaConfig(tier)
             categoryQuota == IF category = "unknown" THEN quotaConfig.gemini_flash
                              ELSE quotaConfig[category]
         IN (deltaPercentage * (categoryQuota \div QuotaUnit)) \div ((100 * PercentScale) \div QuotaUnit)

\* Variant that counts a rise of the percentage like a fall.
estimateTokensFromDelta_CountsRises(previousPercentage, currentPercentage, category, tier) ==
    LET deltaPercentage == IF currentPercentage >= previousPercentage
                           THEN currentPercentage - previousPercentage
                           ELSE previousPercentage - currentPercentage
        quotaConfig == getTierQuotaConfig(tier)
        categoryQuota == IF category = "unknown" THEN quotaConfig.gemini_flash
                         ELSE quotaConfig[category]
    IN MathRound(deltaPercentage * (categoryQuota \div QuotaUnit), (100 * PercentScale) \div QuotaUnit)

\* estimateTokensFromDelta; a percentage n stands for the double that the
\* decimal n / 1000 denotes (PercentScale is 10^3)
estimateTokensFromDelta(previousPercentage, currentPercentage, category, tier) ==
    IF currentPercentage >= previousPercentage THEN 0
    ELSE IF currentPercentage > previousPercentage + 50 * PercentScale THEN 0
    ELSE LET deltaPercentage ==
                 DoubleMinus(DoubleOfDecimal(FALSE, NatLimbs(previousPercentage), 0 - 3),
                             DoubleOfDecimal(FALSE, NatLimbs(currentPercentage), 0 - 3))
             quotaConfig == getTierQuotaConfig(tier)
             categoryQuota == IF category = "unknown" THEN quotaConfig.gemini_flash
                              ELSE quotaConfig[category]
         IN MathRoundDouble(DoubleTimes(DoubleDividedBy(deltaPercentage, DoubleOfNat(100)),
                                        DoubleOfNat(categoryQuota)))

\* The usage new TokenEstimator is given: none (<<>>) or the counters of an
\* earlier run
InitialUsages ==
    { <<>>, <<[gemini_flash |-> 5, gemini_pro |-> 0, claude |-> 0, total |-> 5]>> }

\* The persisted states TokenEstimator.fromState is given: the entries of
\* quotaHistory as pairs of a key and the currentPercentage of its value, and
\* the accumulatedUsage, <<>> when the state has none
PersistedStates ==
    { [quotaHistory |-> <<>>, accumulatedUsage |-> <<>>],
      [quotaHistory |-> << <<"claude_sonnet_4", 100000>> >>,
       accumulatedUsage |-> <<[gemini_flash |-> 0, gemini_pro |-> 0, claude |-> 7, total |-> 7]>>] }

\* new TokenEstimator(initialUsage): empty quotaHistory, accumulatedUsage
\* zero or a copy of initialUsage; calls is the record of the updates made so
\* far and initial that of the history and usage the estimator began with
TokenEstimator(initialUsage) ==
    LET usage == IF initialUsage # <<>> THEN initialUsage[1]
                 ELSE [gemini_flash |-> 0, gemini_pro |-> 0, claude |-> 0, total |-> 0]
        history == [id \in ModelIds |-> <<>>]
    IN [pc |-> "ready",
        quotaHistory |-> history,
        accumulatedUsage |-> usage,
        calls |-> <<>>,
        initial |-> [quotaHistory |-> history, accumulatedUsage |-> usage]]

\* TokenEstimator.fromState: the estimator of state.accumulatedUsage with the
\* entries of state.quotaHistory set in their order
fromState(state) ==
    LET est == TokenEstimator(state.accumulatedUsage)
        entries == state.quotaHistory
        history == [id \in ModelIds |->
                       LET mine == { i \in DOMAIN entries : entries[i][1] = id }
                       IN IF mine = {} THEN <<>>
                          ELSE <<entries[CHOOSE i \in mine : \A j \in mine : j <= i][2]>>]
    IN [est EXCEPT !.quotaHistory = history, !.initial.quotaHistory = history]

EstimatorNew(initialUsage) ==
    /\ estimator.pc = "idle"
    /\ estimator' = TokenEstimator(initialUsage)
    /\ UNCHANGED <<vars, detector, fetcher, server, config, http>>

EstimatorFromState(state) ==
    /\ estimator.pc = "idle"
    /\ estimator' = fromState(state)
    /\ UNCHANGED <<vars, detector, fetcher, server, config, http>>

\* updateFromModels 881-903: the percentage stored (when advance), the
\* consumed tokens added to the total and, for a known category, to its
\* counter; calls keeps what each call was given and estimated
recordConsumed(est, modelId, currentPercentage, tier, category, consumed, advance) ==
    [est EXCEPT
       !.quotaHistory[modelId] = IF advance THEN <<currentPercentage>> ELSE @,
       !.accumulatedUsage = [k \in DOMAIN @ |->
           IF k = "total" THEN @[k] + consumed
           ELSE IF consumed > 0 /\ category # "unknown" /\ k = category THEN @[k] + consumed
           ELSE @[k]],
       !.calls = Append(@, [modelId |-> modelId, percentage |-> currentPercentage,
                            tier |-> tier, tokensConsumed |-> consumed])]

\* Variant that takes a model without history to have been at 100 %.
updateFromModels_AssumesFull(est, modelId, currentPercentage, tier) ==
    recordConsumed(est, modelId, currentPercentage, tier, categorizeModel(modelId),
                   estimateTokensFromDelta(IF est.quotaHistory[modelId] = <<>>
                                           THEN 100 * PercentScale
                                           ELSE est.quotaHistory[modelId][1],
                                           currentPercentage, categorizeModel(modelId), tier),
                   TRUE)

\* Variant that stores the percentage only when consumption was counted.
updateFromModels_AdvancesOnConsumption(est, modelId, currentPercentage, tier) ==
    recordConsumed(est, modelId, currentPercentage, tier, categorizeModel(modelId),
                   estimateTokensFromDelta(IF est.quotaHistory[modelId] = <<>>
                                           THEN currentPercentage
                                           ELSE est.quotaHistory[modelId][1],
                                           currentPercentage, categorizeModel(modelId), tier),
                   \/ est.quotaHistory[modelId] = <<>>
                   \/ estimateTokensFromDelta(est.quotaHistory[modelId][1], currentPercentage,
                                              categorizeModel(modelId), tier) > 0)

\* updateFromModels for one model
updateFromModels(est, modelId, currentPercentage, tier) ==
    recordConsumed(est, modelId, currentPercentage, tier, categorizeModel(modelId),
                   estimateTokensFromDelta(IF est.quotaHistory[modelId] = <<>>
                                           THEN currentPercentage
                                           ELSE est.quotaHistory[modelId][1],
                                           currentPercentage, categorizeModel(modelId), tier),
                   TRUE)

EstimatorUpdate(modelId, currentPercentage, tier) ==
    /\ estimator.pc = "ready"
    /\ Len(estimator.calls) < MaxUpdates
    /\ estimator' = updateFromModels(estimator, modelId, currentPercentage, tier)
    /\ UNCHANGED <<vars, detector, fetcher, server, config, http>>

InitEstimator == Init /\ ~authenticated /\ ~rankMode

NextEstimator ==
    \/ \E u \in InitialUsages : EstimatorNew(u)
    \/ \E st \in PersistedStates : EstimatorFromState(st)
    \/ \E id \in ModelIds, p \in Percentages, t \in Tiers : EstimatorUpdate(id, p, t)

SpecEstimator == InitEstimator /\ [][NextEstimator]_allVars

---------------------------------------------------------------------------
(* The quota fetcher: fetchQuota and parseResponse *)

\* The servers fetchQuota is called with
Servers ==
    { [port |-> 7001, csrfToken |-> "tokA"], [port |-> 7002, csrfToken |-> "tokB"] }

\* The statuses of the responses the local endpoint gives
Statuses ==
    {200, 201, 202, 204, 206, 299, 300, 304, 400, 401, 402, 403, 404, 408, 429,
     500, 502, 503, 504, 599}

\* response.ok
ResponseOk(status) == status >= 200 /\ status <= 299

\* The values of a JSON reply: <<"undefined">> is an absent field, <<"null">>
\* null, <<"bool", b>> a boolean, <<"num", chars>> a number given by the
\* characters of its literal, <<"str", chars>> a string given by its
\* characters, <<"arr", elements>> an array and <<"obj", fields>> an object
JsUndefined == <<"undefined">>

JsNull == <<"null">>

JsNumber(chars) == <<"num", chars>>

JsString(chars) == <<"str", chars>>

\* Number(x).  A number literal and a string are converted by their text; an
\* array by the text of its elements joined with commas, which is empty for no
\* element, the text of the element for one (nothing for null, a number
\* written without the sign of a zero, a string as it is) and no number for
\* several
RECURSIVE Number(_)
Number(x) ==
    CASE x[1] = "undefined" -> DoubleNaN
      [] x[1] = "null" -> DoubleZero(FALSE)
      [] x[1] = "bool" -> IF x[2] THEN DoubleOfNat(1) ELSE DoubleZero(FALSE)
      [] x[1] \in {"num", "str"} -> StringToNumber(x[2])
      [] x[1] = "obj" -> DoubleNaN
      [] x[1] = "arr" ->
            IF x[2] = <<>> THEN DoubleZero(FALSE)
            ELSE IF Len(x[2]) > 1 THEN DoubleNaN
            ELSE IF x[2][1][1] \in {"undefined", "null"} THEN DoubleZero(FALSE)
            ELSE IF x[2][1][1] = "bool" THEN DoubleNaN
            ELSE IF x[2][1][1] = "num" /\ IsZero(Number(x[2][1]))
            THEN DoubleZero(FALSE)
            ELSE Number(x[2][1])

\* The values that count as true in a condition: all but undefined, null,
\* false, a zero and the empty string
Truthy(x) ==
    CASE x[1] \in {"undefined", "null"} -> FALSE
      [] x[1] = "bool" -> x[2]
      [] x[1] = "num" -> ~IsZero(Number(x))
      [] x[1] = "str" -> x[2] # <<>>
      [] x[1] \in {"obj", "arr"} -> TRUE

\* The bodies of the responses: no body at all, a text that is no JSON (given
\* by its characters), and a JSON text with its value; an object is given by
\* its userStatus field
EmptyBody == [kind |-> "empty", value |-> JsUndefined]

TextBody(chars) == [kind |-> "not_json", value |-> JsString(chars)]

\* Texts that are no JSON: each is shorter than 21 characters and begins with
\* a character that begins no JSON value
TextBodies ==
    { TextBody(<<"<", "h", "t", "m", "l", ">">>),
      TextBody(<<"N", "o", "t", " ", "F", "o", "u", "n", "d">>) }

JsonBody(value) == [kind |-> "json", value |-> value]

ObjectBody(userStatus) == JsonBody(<<"obj", [userStatus |-> userStatus]>>)

\* The fields parseResponse reads from userStatus: whether planStatus.planInfo
\* is an object, planInfo.monthlyPromptCredits, planStatus.availablePromptCredits,
\* planInfo.monthlyFlowCredits, planStatus.availableFlowCredits and
\* cascadeModelConfigData.clientModelConfigs (models).  An entry of models that
\* is an object is given by modelOrAlias.model ("" when absent), by whether
\* quotaInfo is an object, and by quotaInfo.remainingFraction
UserStatus(planInfo, monthlyPrompt, availablePrompt, monthlyFlow, availableFlow, models) ==
    <<"obj", [planInfo |-> planInfo,
              monthlyPromptCredits |-> monthlyPrompt,
              availablePromptCredits |-> availablePrompt,
              monthlyFlowCredits |-> monthlyFlow,
              availableFlowCredits |-> availableFlow,
              models |-> models]>>

RawModel(modelId, quotaInfo, remainingFraction) ==
    <<"obj", [modelId |-> modelId, quotaInfo |-> quotaInfo,
              remainingFraction |-> remainingFraction]>>

\* parseResponse 536-539 and 595: a userStatus that is no object has none of
\* the fields
StatusFields(userStatus) ==
    IF userStatus[1] = "obj" THEN userStatus[2]
    ELSE [planInfo |-> FALSE,
          monthlyPromptCredits |-> JsUndefined,
          availablePromptCredits |-> JsUndefined,
          monthlyFlowCredits |-> JsUndefined,
          availableFlowCredits |-> JsUndefined,
          models |-> JsUndefined]

\* parseResponse 546-553: promptCredits and flowCredits, <<>> when undefined
CreditsOf(monthly, available) ==
    IF DoubleLess(DoubleZero(FALSE), monthly)
    THEN << [available |-> available,
             monthly |-> monthly,
             usedPercentage |->
                 DoubleTimes(DoubleDividedBy(DoubleMinus(monthly, available), monthly),
                             DoubleOfNat(100)),
             remainingPercentage |->
                 DoubleTimes(DoubleDividedBy(available, monthly), DoubleOfNat(100))] >>
    ELSE <<>>

\* parseResponse 544-553
CreditsInfo(monthlyField, availableField) ==
    CreditsOf(Number(monthlyField), Number(availableField))

\* parseResponse 541-554
parsePromptCredits(userStatus) ==
    IF /\ StatusFields(userStatus).planInfo
       /\ StatusFields(userStatus).availablePromptCredits # JsUndefined
    THEN CreditsInfo(StatusFields(userStatus).monthlyPromptCredits,
                     StatusFields(userStatus).availablePromptCredits)
    ELSE <<>>

\* parseResponse 556-569: planInfo?.monthlyFlowCredits && ...
parseFlowCredits(userStatus) ==
    IF /\ StatusFields(userStatus).planInfo
       /\ Truthy(StatusFields(userStatus).monthlyFlowCredits)
       /\ StatusFields(userStatus).availableFlowCredits # JsUndefined
    THEN CreditsInfo(StatusFields(userStatus).monthlyFlowCredits,
                     StatusFields(userStatus).availableFlowCredits)
    ELSE <<>>

\* x || 0 for a number: NaN and both zeros become 0
OrZero(x) == IF x.nan \/ IsZero(x) THEN DoubleZero(FALSE) ELSE x

\* parseResponse 574: credits?.available || 0
availableOrZero(credits) ==
    IF credits = <<>> THEN DoubleZero(FALSE) ELSE OrZero(credits[1].available)

\* parseResponse 575: credits?.monthly || 0
monthlyOrZero(credits) ==
    IF credits = <<>> THEN DoubleZero(FALSE) ELSE OrZero(credits[1].monthly)

\* parseResponse 576-582
TokenUsageOf(totalAvailable, totalMonthly) ==
    << [totalAvailable |-> totalAvailable,
        totalMonthly |-> totalMonthly,
        overallRemainingPercentage |->
            IF DoubleLess(DoubleZero(FALSE), totalMonthly)
            THEN DoubleTimes(DoubleDividedBy(totalAvailable, totalMonthly), DoubleOfNat(100))
            ELSE DoubleZero(FALSE)] >>

\* parseResponse 571-583: tokenUsage, <<>> when undefined
parseTokenUsage(promptCredits, flowCredits) ==
    IF promptCredits = <<>> /\ flowCredits = <<>> THEN <<>>
    ELSE TokenUsageOf(DoublePlus(availableOrZero(promptCredits), availableOrZero(flowCredits)),
                      DoublePlus(monthlyOrZero(promptCredits), monthlyOrZero(flowCredits)))

\* parseResponse 604-611: remainingFraction * 100 converts as Number does, and
\* === 0 holds for the number zero only
ModelQuota(modelId, remainingFraction) ==
    [modelId |-> IF modelId = "" THEN "unknown" ELSE modelId,
     remainingPercentage |-> DoubleTimes(Number(remainingFraction), DoubleOfNat(100)),
     isExhausted |-> remainingFraction[1] = "num" /\ IsZero(Number(remainingFraction))]

\* parseResponse 598-611: one model with quotaInfo; remainingFraction ?? 0
parseModel(raw) ==
    ModelQuota(raw.modelId,
               IF raw.remainingFraction \in {JsUndefined, JsNull} THEN JsNumber(<<"0">>)
               ELSE raw.remainingFraction)

RECURSIVE parseModels(_)
\* parseResponse 596-612: the entries without quotaInfo are left out
parseModels(rawModels) ==
    IF rawModels = <<>> THEN <<>>
    ELSE IF rawModels[1][1] = "obj" /\ rawModels[1][2].quotaInfo
    THEN <<parseModel(rawModels[1][2])>> \o parseModels(Tail(rawModels))
    ELSE parseModels(Tail(rawModels))

\* parseResponse 595-597: the message of the TypeError it throws, <<>> when
\* it throws none.  clientModelConfigs || [] keeps every value that counts as
\* true; one that is no array has no filter method, and reading quotaInfo of
\* an entry that is null throws
parseResponseThrows(userStatus) ==
    IF ~Truthy(StatusFields(userStatus).models) THEN <<>>
    ELSE IF StatusFields(userStatus).models[1] # "arr"
    THEN <<"rawModels.filter is not a function">>
    ELSE IF \E i \in DOMAIN StatusFields(userStatus).models[2] :
                StatusFields(userStatus).models[2][i] = JsNull
    THEN <<"Cannot read properties of null (reading 'quotaInfo')">>
    ELSE <<>>

\* parseResponse 614: the snapshot
QuotaSnapshot(promptCredits, flowCredits, configs) ==
    [promptCredits |-> promptCredits,
     flowCredits |-> flowCredits,
     tokenUsage |-> parseTokenUsage(promptCredits, flowCredits),
     models |-> IF Truthy(configs) THEN parseModels(configs[2]) ELSE <<>>]

\* parseResponse 535-615, when it throws nothing
parseResponse(userStatus) ==
    QuotaSnapshot(parsePromptCredits(userStatus), parseFlowCredits(userStatus),
                  StatusFields(userStatus).models)

\* response.json(): the bodies JSON.parse rejects, with the message of its
\* SyntaxError.  For a text of TextBodies the message names the first
\* character and quotes the text: Unexpected token '<', "<html>" is not valid
\* JSON (a runtime before V8 11.4 names the character and its position:
\* Unexpected token < in JSON at position 0)
JsonSyntaxError(body) ==
    IF body.kind = "empty" THEN <<"Unexpected end of JSON input">>
    ELSE IF body.kind = "not_json"
    THEN <<"Unexpected token", body.value[2][1], body.value[2]>>
    ELSE <<>>

QuotaFailure(message) == [success |-> FALSE, error |-> message]

\* fetchQuota 497-508
fetchQuotaStatus(status) ==
    IF status = 401 \/ status = 403
    THEN QuotaFailure(<<"Authentication failed", status>>)
    ELSE QuotaFailure(<<"HTTP error", status>>)

\* fetchQuota 510-529: response.json() throws on a body that is no JSON,
\* data.userStatus throws a TypeError on null, and parseResponse may throw; the
\* catch returns the message
fetchQuotaBody(body) ==
    IF JsonSyntaxError(body) # <<>> THEN QuotaFailure(JsonSyntaxError(body))
    ELSE IF body.value = JsNull
    THEN QuotaFailure(<<"Cannot read properties of null (reading 'userStatus')">>)
    ELSE IF ~(body.value[1] = "obj" /\ Truthy(body.value[2].userStatus))
    THEN QuotaFailure(<<"Invalid response structure">>)
    ELSE IF parseResponseThrows(body.value[2].userStatus) # <<>>
    THEN QuotaFailure(parseResponseThrows(body.value[2].userStatus))
    ELSE [success |-> TRUE, snapshot |-> parseResponse(body.value[2].userStatus)]

\* The replies fed to parseResponse: the fields as numbers, as strings of
\* digits, with an exponent, a point or a sign, as other strings, null or
\* absent; the fraction missing, inside and outside 0..1; the list of the
\* models holding null, or being no list
UserStatuses ==
    LET FractionFields ==
            {JsUndefined, JsNull, JsNumber(<<"0">>), JsNumber(<<"0", ".", "7", "1">>),
             JsNumber(<<"1">>), JsNumber(<<"1", ".", "5">>), JsNumber(<<"-", "0", ".", "2">>),
             JsString(<<"1">>), JsString(<<"x">>)}
    IN { UserStatus(planInfo, monthlyPrompt, availablePrompt, monthlyFlow, availableFlow, models) :
            planInfo \in BOOLEAN,
            monthlyPrompt \in
                {JsUndefined, JsNumber(<<"1", "0", "0", "0">>), JsNumber(<<"0">>),
                 JsString(<<"1", "0", "0", "0">>), JsString(<<"1", "e", "3">>),
                 JsString(<<"a", "b", "c">>)},
            availablePrompt \in
                {JsUndefined, JsNull, JsNumber(<<"9", "0", "0">>), JsNumber(<<"1", "0", "5", "0">>),
                 JsNumber(<<"1">>), JsString(<<"9", "0", "0">>), JsString(<<>>),
                 JsString(<<"a", "b", "c">>), JsString(<<"1", ".", "5">>), JsString(<<"-", "5">>)},
            monthlyFlow \in {JsUndefined, JsNumber(<<"1", "0", "0", "0", "0">>), JsString(<<"0">>)},
            availableFlow \in {JsUndefined, JsNumber(<<"9", "9", "5", "0">>), JsString(<<"x">>)},
            models \in
                {JsUndefined, <<"arr", <<RawModel("gemini_3_flash", FALSE, JsUndefined)>>>>,
                 <<"arr", <<JsNull>>>>, <<"obj", [a |-> JsNumber(<<"1">>)]>>,
                 JsString(<<"a", "b", "c">>)}
                \cup { <<"arr", <<RawModel("gemini_3_flash", TRUE, f)>>>> : f \in FractionFields } }

\* The bodies of the responses: no body, a text that is no JSON, the JSON
\* values null and 42, an object without userStatus and one whose userStatus is
\* null, and objects with a userStatus object: credits and one model, a list
\* of models that holds null, models that are no list, credits as strings
Bodies ==
    TextBodies \cup
    {EmptyBody, JsonBody(JsNull), JsonBody(JsNumber(<<"4", "2">>)),
     ObjectBody(JsUndefined), ObjectBody(JsNull),
     ObjectBody(UserStatus(TRUE, JsNumber(<<"1", "0", "0", "0">>), JsNumber(<<"9", "0", "0">>),
                           JsUndefined, JsUndefined,
                           <<"arr", <<RawModel("gemini_3_flash", TRUE,
                                               JsNumber(<<"0", ".", "7", "1">>))>>>>)),
     ObjectBody(UserStatus(FALSE, JsUndefined, JsUndefined, JsUndefined, JsUndefined,
                           <<"arr", <<JsNull>>>>)),
     ObjectBody(UserStatus(FALSE, JsUndefined, JsUndefined, JsUndefined, JsUndefined,
                           JsString(<<"a", "b", "c">>))),
     ObjectBody(UserStatus(TRUE, JsString(<<"1", "e", "3">>), JsNumber(<<"1">>),
                           JsUndefined, JsUndefined, JsUndefined))}

\* fetchQuota 480-495: called, the request sent
FetchStart(serverInfo) ==
    /\ fetcher.pc = "idle"
    /\ fetcher' = [pc |-> "pending", server |-> serverInfo, status |-> 0,
                   body |-> [kind |-> "none", value |-> JsUndefined], result |-> <<>>]
    /\ UNCHANGED <<vars, detector, estimator, server, config, http>>

\* fetchQuota 484-510: await fetch resolved with a response
FetchResponded(status) ==
    /\ fetcher.pc = "pending"
    /\ fetcher' = IF ResponseOk(status)
                  THEN [fetcher EXCEPT !.pc = "reading", !.status = status]
                  ELSE [fetcher EXCEPT !.pc = "done", !.status = status,
                                       !.result = fetchQuotaStatus(status)]
    /\ UNCHANGED <<vars, detector, estimator, server, config, http>>

\* fetchQuota 484 and 524-529: await fetch rejected (connection refused or
\* reset, or no response within the headers timeout of the runtime's fetch)
FetchRejected ==
    /\ fetcher.pc = "pending"
    /\ fetcher' = [fetcher EXCEPT !.pc = "done", !.body.kind = "network_exception",
                                  !.result = QuotaFailure(<<"fetch failed">>)]
    /\ UNCHANGED <<vars, detector, estimator, server, config, http>>

\* fetchQuota 510-529: await response.json() settled with the whole body read
FetchBodyRead(body) ==
    /\ fetcher.pc = "reading"
    /\ fetcher' = [fetcher EXCEPT !.pc = "done", !.body = body,
                                  !.result = fetchQuotaBody(body)]
    /\ UNCHANGED <<vars, detector, estimator, server, config, http>>

\* fetchQuota 510 and 524-529: await response.json() rejected, the connection
\* cut inside the body
FetchBodyCut ==
    /\ fetcher.pc = "reading"
    /\ fetcher' = [fetcher EXCEPT !.pc = "done", !.body.kind = "cut",
                                  !.result = QuotaFailure(<<"terminated">>)]
    /\ UNCHANGED <<vars, detector, estimator, server, config, http>>

InitFetch == Init /\ ~authenticated /\ ~rankMode

NextFetch ==
    \/ \E s \in Servers : FetchStart(s)
    \/ \E st \in Statuses : FetchResponded(st)
    \/ FetchRejected
    \/ \E b \in Bodies : FetchBodyRead(b)
    \/ FetchBodyCut

SpecFetch == InitFetch /\ [][NextFetch]_allVars

\* fetchQuota 510: await response.json() resolved with an object that has
\* userStatus
ParseBodyRead(userStatus) ==
    /\ fetcher.pc = "idle"
    /\ fetcher' = [pc |-> "parsing", data |-> userStatus, result |-> <<>>]
    /\ UNCHANGED <<vars, detector, estimator, server, config, http>>

\* fetchQuota 512-529: parseResponse, and the snapshot returned as a success
\* or the message of what it threw
ParseDone ==
    /\ fetcher.pc = "parsing"
    /\ fetcher' = [fetcher EXCEPT !.pc = "done",
                       !.result = fetchQuotaBody(ObjectBody(fetcher.data))]
    /\ UNCHANGED <<vars, detector, estimator, server, config, http>>

NextParse ==
    \/ \E u \in UserStatuses : ParseBodyRead(u)
    \/ ParseDone

SpecParse == InitFetch /\ [][NextParse]_allVars

---------------------------------------------------------------------------
(* What leaves the process and what is persisted *)

\* ApiClient.submitUsage: the text values of the request made for attempt e,
\* those of its body (the checksums and clientVersion) and of its headers
\* (Authorization: Bearer token, X-Client); the numbers of the body are no texts
RequestStrings(e) ==
    {e.cumulativeChecksum, e.previousChecksum, <<"clientVersion">>,
     <<"Bearer", "auth.token">>, <<"agy-top">>}

\* The text values of the config store: apiUrl, webUrl, installationId, the
\* auth token and email, and the checksum of lastSubmission
ConfigStrings ==
    {<<"apiUrl">>, <<"webUrl">>, <<"installationId">>, <<"auth.token">>, <<"auth.email">>}
        \cup (IF cursor = <<>> THEN {} ELSE {cursor[1].checksum})

---------------------------------------------------------------------------
(* The submit command alone: `agy-top submit [--force]` and submitUsage() *)

InitSubmitCommand == Init /\ authenticated

NextSubmitCommand ==
    \/ \E mode \in CliOrigins, f \in BOOLEAN : CliStart(mode, f)
    \/ \E st \in CollectedStats : CliCollected(st)
    \/ \E i \in 1..MaxSent, o \in Outcomes : Respond(i, o)
    \/ \E d \in TickSteps : Tick(d)

SpecSubmitCommand == InitSubmitCommand /\ [][NextSubmitCommand]_allVars

---------------------------------------------------------------------------
(* The refresh loop with a language server that restarts *)

\* The language server restarts and listens on another port or with another
\* CSRF token
ServerRestarts(endpoint) ==
    /\ endpoint # server.actual
    /\ server' = [server EXCEPT !.actual = endpoint]
    /\ UNCHANGED <<vars, detector, estimator, fetcher, config, http>>

\* fetchQuota(state.server) can return a snapshot only from the endpoint at
\* which the server listens
Reachable(result) == server.handle = server.actual \/ result = NullSnapshot

\* The steps of the dashboard
DashboardStep ==
    \/ \E r \in SnapshotIds \cup {NullSnapshot} : Reachable(r) /\ InitialLoad(r)
    \/ TimerFire
    \/ \E r \in SnapshotIds \cup {NullSnapshot} : Reachable(r) /\ TimerFetchDone(r)
    \/ StatsFetched
    \/ KeyR
    \/ \E r \in SnapshotIds \cup {NullSnapshot} : Reachable(r) /\ KeyRFetchDone(r)
    \/ KeyRStatsFetched

InitRedetect == Init /\ ~authenticated

NextRedetect ==
    \/ DashboardStep
    \/ \E e \in Endpoints : ServerRestarts(e)
    \/ \E d \in TickSteps : Tick(d)

SpecRedetect == InitRedetect /\ [][NextRedetect]_allVars

---------------------------------------------------------------------------
(* Login, logout and the HTTP clients *)

MaxRequests == 2

\* isAuthenticated(): !!(auth && auth.token)
isAuthenticated(cfg) == cfg.auth.token # <<>>

\* storeAuth(auth): config.set('auth', auth)
storeAuth(cfg, auth) == [cfg EXCEPT !.auth = auth]

\* Variant that clears the whole store, which then holds its defaults with a
\* newly generated installation id.
clearAuth_ClearsStore(cfg) ==
    [auth |-> AuthEmpty,
     apiUrl |-> "https://api.paean.ai",
     webUrl |-> "https://app.paean.ai",
     installationId |-> "agy-1700000099999-zz00zz00"]

\* clearAuth(): config.set('auth', {})
clearAuth(cfg) == [cfg EXCEPT !.auth = AuthEmpty]

\* setConfigValue(key, value): config.set(key, value) writes the key, which
\* the store need not hold yet (lastSubmission, the cursor, is one of its
\* keys)
setConfigValue(cfg, key, value) ==
    [k \in DOMAIN cfg \cup {key} |-> IF k = key THEN value ELSE cfg[k]]

\* resetApiClients(): publicClient = null; authClient = null
resetApiClients(h) == [h EXCEPT !.publicClient = <<>>, !.authClient = <<>>]

\* the request interceptor of the authenticated client: the Authorization
\* header of a request, <<>> when getAuthToken() returns no token
authInterceptor(cfg) ==
    LET token == cfg.auth.token
    IN IF token # <<>> THEN <<"Bearer", token[1]>> ELSE <<>>

\* The paths requested through the authenticated client
AuthPaths == {"/agy/usage/submit", "/agy/usage/my"}

\* `agy-top login` 22-37: the command of a user who is not logged in calls
\* browserLogin() and waits for the callback (the command of a logged-in user
\* reports the login and returns)
LoginStart ==
    /\ http.login \in {"idle", "closed"}
    /\ ~isAuthenticated(config)
    /\ http' = [http EXCEPT !.login = "command"]
    /\ UNCHANGED <<vars, detector, estimator, fetcher, server, config>>

\* browserLogin() 196-352 called by itself: it starts the local server and
\* waits for the callback, whatever the config store holds
BrowserLoginStart ==
    /\ http.login \in {"idle", "closed"}
    /\ http' = [http EXCEPT !.login = "library"]
    /\ UNCHANGED <<vars, detector, estimator, fetcher, server, config>>

\* browserLogin 229-278, the callback with a token: it stores the auth record,
\* whatever was stored before, and resets the clients of its process; own is
\* FALSE when that is another process than the one whose clients http holds.
\* The first callback ends the wait (cleanup() and resolve) and the login
\* command goes on to getCurrentUser(); server.close() only stops the server
\* from accepting connections, so a further request on a connection that is
\* still open is handled in the same way, cleanup() and resolve then doing
\* nothing
LoginCallback(auth, own) ==
    /\ own => http.login # "idle"
    /\ config' = storeAuth(config, auth)
    /\ http' = IF own
               THEN [resetApiClients(http) EXCEPT
                        !.login = IF http.login = "command" THEN "profile"
                                  ELSE IF http.login = "library" THEN "closed"
                                  ELSE http.login]
               ELSE http
    /\ authenticated' = TRUE
    /\ NoAttempt
    /\ UNCHANGED <<rankMode, loaded, snapshot, previousSnapshot, currentView,
                   lastSubmitTime, timerPc, refreshKeys, cursor, ackedSnapshot, cli, clock,
                   ticks, ackedInput, ackedOutput, failed, error,
                   leaderboardGets, statsKeys, crashed>>
    /\ UNCHANGED <<detector, estimator, fetcher, server>>

\* browserLogin 279-316, 323-326 and 345-348: the callback without a token,
\* an error of the local server or the timeout of five minutes ends the wait
\* with nothing stored, and closes the server
LoginFailed ==
    /\ http.login \in {"command", "library"}
    /\ http' = [http EXCEPT !.login = "closed"]
    /\ UNCHANGED <<vars, detector, estimator, fetcher, server, config>>

\* `agy-top login` 44 and getCurrentUser 357-360: after the login the command
\* requests /user/profile through the authenticated client
LoginProfile ==
    /\ http.login = "profile"
    /\ Len(http.sent) < MaxRequests
    /\ http' = [http EXCEPT
                   !.login = "closed",
                   !.authClient = IF @ = <<>> THEN << [baseURL |-> config.apiUrl] >> ELSE @,
                   !.sent = Append(@, [path |-> "/user/profile",
                                       baseURL |-> IF http.authClient = <<>>
                                                   THEN config.apiUrl
                                                   ELSE http.authClient[1].baseURL,
                                       authorization |-> authInterceptor(config)])]
    /\ UNCHANGED <<vars, detector, estimator, fetcher, server, config>>

\* `agy-top logout`: logout() clears the auth record and resets the clients of
\* the process that runs it; own is FALSE when that is another process than
\* the one whose clients http holds
Logout(own) ==
    /\ isAuthenticated(config)
    /\ config' = clearAuth(config)
    /\ http' = IF own THEN resetApiClients(http) ELSE http
    /\ authenticated' = isAuthenticated(config')
    /\ NoAttempt
    /\ UNCHANGED <<rankMode, loaded, snapshot, previousSnapshot, currentView,
                   lastSubmitTime, timerPc, refreshKeys, cursor, ackedSnapshot, cli, clock,
                   ticks, ackedInput, ackedOutput, failed, error,
                   leaderboardGets, statsKeys, crashed>>
    /\ UNCHANGED <<detector, estimator, fetcher, server>>

\* getApiClient() and a request through it: the client is created with
\* baseURL getApiUrl() when there is none, the interceptor sets the
\* Authorization header
AuthRequest(path) ==
    /\ Len(http.sent) < MaxRequests
    /\ LET client == IF http.authClient = <<>> THEN << [baseURL |-> config.apiUrl] >>
                     ELSE http.authClient
       IN http' = [http EXCEPT !.authClient = client,
                       !.sent = Append(@, [path |-> path,
                                           baseURL |-> client[1].baseURL,
                                           authorization |-> authInterceptor(config)])]
    /\ UNCHANGED <<vars, detector, estimator, fetcher, server, config>>

\* getPublicApiClient() and a request through it
PublicRequest(path) ==
    /\ Len(http.sent) < MaxRequests
    /\ LET client == IF http.publicClient = <<>> THEN << [baseURL |-> config.apiUrl] >>
                     ELSE http.publicClient
       IN http' = [http EXCEPT !.publicClient = client,
                       !.sent = Append(@, [path |-> path,
                                           baseURL |-> client[1].baseURL,
                                           authorization |-> <<>>])]
    /\ UNCHANGED <<vars, detector, estimator, fetcher, server, config>>

\* A process starts on a config store that may hold the cursor of an earlier
\* submission
LastSubmissionStored ==
    << [timestamp |-> 0, checksum |-> ZeroChecksum, totalUsedInput |-> 100,
        totalUsedOutput |-> 50] >>

\* The store as config.ts reads and writes it: the config record, with the
\* key lastSubmission when a cursor is stored
StoreOf(cfg, cur) ==
    IF cur = <<>> THEN cfg ELSE setConfigValue(cfg, "lastSubmission", cur[1])

\* The values a caller of setConfigValue passes for each key of ConfigSchema
ConfigValues ==
    [auth |-> AuthRecords \cup {AuthEmpty},
     apiUrl |-> {"https://other.example"},
     webUrl |-> {"https://web.other.example"},
     installationId |-> {"agy-1700000099999-zz00zz00"},
     lastSubmission |->
         { [timestamp |-> 0,
            checksum |-> <<"cdcdcdcdcdcdcdcdcdcdcdcdcdcdcdcdcdcdcdcdcdcdcdcdcdcdcdcdcdcdcdcd">>,
            totalUsedInput |-> 0,
            totalUsedOutput |-> 0] }]

\* setConfigValue(key, value) 60-62, called by a user of utils/config.ts (no
\* command of the program calls it, and index.ts does not export it): the
\* key is written to the store, whatever it held; the HTTP clients are not
\* reset, so a client created before keeps its baseURL and the next one
\* created reads the new apiUrl; the interceptor reads the token of the store
\* at each request
SetConfigValue(key, value) ==
    /\ LET store == setConfigValue(StoreOf(config, cursor), key, value)
       IN /\ config' = [auth |-> store.auth,
                        apiUrl |-> store.apiUrl,
                        webUrl |-> store.webUrl,
                        installationId |-> store.installationId]
          /\ cursor' = IF "lastSubmission" \in DOMAIN store
                       THEN << store.lastSubmission >>
                       ELSE <<>>
    /\ authenticated' = isAuthenticated(config')
    /\ ackedSnapshot' = IF key = "lastSubmission" THEN NullSnapshot ELSE ackedSnapshot
    /\ NoAttempt
    /\ UNCHANGED <<rankMode, loaded, snapshot, previousSnapshot, currentView,
                   lastSubmitTime, timerPc, refreshKeys, cli, clock,
                   ticks, ackedInput, ackedOutput, failed, error,
                   leaderboardGets, statsKeys, crashed>>
    /\ UNCHANGED <<detector, estimator, fetcher, server, http>>

InitAuth ==
    /\ authenticated \in BOOLEAN
    /\ rankMode = authenticated
    /\ loaded = FALSE
    /\ snapshot = NullSnapshot
    /\ previousSnapshot = NullSnapshot
    /\ currentView = "dashboard"
    /\ lastSubmitTime = <<>>
    /\ timerPc = "starting"
    /\ refreshKeys = 0
    /\ cursor \in {<<>>, LastSubmissionStored}
    /\ inflight = <<>>
    /\ cli = CliIdle
    /\ clock = 0
    /\ ticks = 0
    /\ nsent = 0
    /\ event = <<>>
    /\ ackedInput = 0
    /\ ackedOutput = 0
    /\ ackedSnapshot = NullSnapshot
    /\ resetSeen = FALSE
    /\ failed = <<>>
    /\ error = <<>>
    /\ leaderboardGets = 0
    /\ statsKeys = 0
    /\ crashed = FALSE
    /\ detector = DetectorIdle
    /\ estimator = EstimatorIdle
    /\ fetcher = FetcherIdle
    /\ server = ServerFound
    /\ config \in {ConfigOf(a) : a \in IF authenticated THEN AuthRecords ELSE {AuthEmpty}}
    /\ http = HttpIdle

NextAuth ==
    \/ LoginStart
    \/ BrowserLoginStart
    \/ \E a \in AuthRecords, own \in BOOLEAN : LoginCallback(a, own)
    \/ LoginFailed
    \/ LoginProfile
    \/ \E own \in BOOLEAN : Logout(own)
    \/ \E p \in AuthPaths : AuthRequest(p)
    \/ PublicRequest("/agy/leaderboard")
    \/ \E key \in DOMAIN ConfigValues : \E value \in ConfigValues[key] :
           SetConfigValue(key, value)

SpecAuth == InitAuth /\ [][NextAuth]_allVars

---------------------------------------------------------------------------
(* The dashboard and the submit command of a logged-in user who may log out
   from another terminal *)

\* The dashboard of a logged-in user starts (rank mode follows from the login)
InitLoggedIn == Init /\ authenticated

NextLogout ==
    \/ \E r \in SnapshotIds \cup {NullSnapshot} : InitialLoad(r)
    \/ TimerFire
    \/ \E r \in SnapshotIds \cup {NullSnapshot} : TimerFetchDone(r)
    \/ StatsFetched
    \/ KeyS
    \/ \E key \in Keys : KeyBack(key)
    \/ \E m \in CliOrigins, f \in BOOLEAN : CliStart(m, f)
    \/ \E st \in CollectedStats : CliCollected(st)
    \/ \E i \in 1..MaxSent, o \in Outcomes : Respond(i, o)
    \/ Logout(FALSE)

SpecLogout == InitLoggedIn /\ [][NextLogout]_allVars

---------------------------------------------------------------------------
(* The auto-refreshing dashboard of a logged-in user in rank mode, with    *)
(* usage that stops after one change, and its scheduling                   *)

\* The language server reports no further usage once the dashboard has seen
\* two snapshots: a fetch fails or returns the snapshot already held
UsageStops(result) ==
    previousSnapshot = NullSnapshot \/ result \in {snapshot, NullSnapshot}

NextAuto ==
    \/ \E r \in SnapshotIds \cup {NullSnapshot} : InitialLoad(r)
    \/ TimerFire
    \/ \E r \in SnapshotIds \cup {NullSnapshot} : UsageStops(r) /\ TimerFetchDone(r)
    \/ StatsFetched
    \/ KeyS
    \/ \E key \in Keys : KeyBack(key)
    \/ \E i \in 1..MaxSent, o \in Outcomes : Respond(i, o)
    \/ \E d \in TickSteps : Tick(d)

\* The initial load returns, setTimeout fires the refresh after
\* refreshInterval, the local fetch returns a snapshot, the GETs of the usage
\* statistics end (30 s timeout), time passes, and the
\* remote service answers a request in flight with success; key presses are
\* up to the user.
SpecAutoFair ==
    /\ InitLoggedIn
    /\ [][NextAuto]_allVars
    /\ WF_allVars(\E r \in SnapshotIds : InitialLoad(r))
    /\ WF_allVars(TimerFire)
    /\ WF_allVars(\E r \in SnapshotIds : UsageStops(r) /\ TimerFetchDone(r))
    /\ WF_allVars(StatsFetched)
    /\ WF_allVars(\E d \in TickSteps : Tick(d))
    /\ SF_allVars(\E i \in 1..MaxSent : Respond(i, "ok"))

---------------------------------------------------------------------------
(* doSubmit: the per-model breakdown of a payload *)

\* usedPercentage = 100 - model.remainingPercentage of the active models
\* (remainingPercentage < 100), in the order of snapshot.models
RECURSIVE modelWeights(_)
modelWeights(models) ==
    IF models = <<>> THEN <<>>
    ELSE IF Head(models) < 100
    THEN <<100 - Head(models)>> \o modelWeights(Tail(models))
    ELSE modelWeights(Tail(models))

RECURSIVE SumSeq(_)
SumSeq(seq) == IF seq = <<>> THEN 0 ELSE Head(seq) + SumSeq(Tail(seq))

\* modelBreakdown: for each active model Math.floor(modelTokens * 0.6) and
\* Math.floor(modelTokens * 0.4) of modelTokens = totalIncremental * share,
\* share = weight / totalWeight; empty when totalWeight is 0
modelBreakdown(s, incrementalInput, incrementalOutput) ==
    LET weights == modelWeights(SnapshotTable[s].models)
        totalWeight == SumSeq(weights)
        totalIncremental == incrementalInput + incrementalOutput
    IN IF totalWeight > 0
       THEN [i \in 1..Len(weights) |->
                [weight |-> weights[i],
                 inputTokens |-> (totalIncremental * weights[i] * 6) \div (totalWeight * 10),
                 outputTokens |-> (totalIncremental * weights[i] * 4) \div (totalWeight * 10),
                 sessions |-> 1]]
       ELSE <<>>

---------------------------------------------------------------------------
(* The dashboard in a month without a credit reset, the quota window of a  *)
(* model refilling                                                         *)

NextRefill ==
    \/ \E r \in {1, 3, NullSnapshot} : InitialLoad(r)
    \/ TimerFire
    \/ \E r \in {1, 3, NullSnapshot} : TimerFetchDone(r)
    \/ StatsFetched
    \/ KeyS
    \/ \E key \in Keys : KeyBack(key)
    \/ \E i \in 1..MaxSent, o \in Outcomes : Respond(i, o)
    \/ \E d \in TickSteps : Tick(d)

SpecRefill == InitLoggedIn /\ [][NextRefill]_allVars

---------------------------------------------------------------------------
(* Properties of the submission protocol *)

\* C1: the persisted cursor changes only in the step in which a submit request
\* is answered with success=true, and then to the timestamp, checksum and totals
\* of that request; an answer success=false or a thrown call leaves all four
\* cursor fields as they were.
C1_CursorWrittenOnlyOnSuccess ==
    [][ /\ cursor' # cursor =>
              /\ event' # <<>>
              /\ event'[1] = "ok"
              /\ \E i \in DOMAIN inflight :
                    /\ inflight' = Remove(inflight, i)
                    /\ cursor' = << [timestamp |-> clock,
                                     checksum |-> inflight[i].cumulativeChecksum,
                                     totalUsedInput |-> inflight[i].curIn,
                                     totalUsedOutput |-> inflight[i].curOut] >>
        /\ (event' # <<>> /\ event'[1] \in {"rejected", "threw"}) =>
              cursor' = cursor ]_vars

\* A request has just failed while a cursor of an earlier success is persisted.
C1_Witness ==
    /\ event # <<>>
    /\ event[1] \in {"rejected", "threw"}
    /\ cursor # <<>>

\* C2: at most one dashboard submission ('s' key, auto-submission of the timer or
\* of a manual refresh) is between its read of the cursor and its end.
C2_SingleFlight ==
    Cardinality({i \in DOMAIN inflight :
                    inflight[i].origin \in DashboardOrigins}) <= 1

\* C3: as long as no attempt found current used below the cursor total, the
\* cursor totals are the sums of the tokens of the acknowledged requests.
C3_CursorIsSumOfAcknowledged ==
    ~resetSeen =>
        /\ lastUsedInput(cursor) = ackedInput
        /\ lastUsedOutput(cursor) = ackedOutput

\* C4: a dashboard submit call made with the snapshot of the request whose
\* acknowledgement wrote the persisted cursor returns the nothing-new result,
\* sends no request and leaves the cursor unchanged.
C4_Idempotent ==
    [][ ( /\ event' # <<>>
          /\ event'[1] \in {"nothing_new", "sent"}
          /\ event'[2] \in DashboardOrigins
          /\ cursor # <<>>
          /\ ackedSnapshot = snapshot' )
        => ( /\ event'[1] = "nothing_new"
             /\ inflight' = inflight
             /\ cursor' = cursor ) ]_vars

\* C5: the dashboard's next attempt after a failed attempt, with the snapshot
\* unchanged, sends the inputTokens, outputTokens and previousChecksum of the
\* failed attempt.
C5_RetrySendsTheSame ==
    [][ ( /\ failed # <<>>
          /\ event' # <<>>
          /\ event'[1] \in {"nothing_new", "sent"}
          /\ event'[2] \in DashboardOrigins
          /\ snapshot' = failed[1].snap )
        => ( /\ event'[1] = "sent"
             /\ inflight'[Len(inflight')].inputTokens = failed[1].inputTokens
             /\ inflight'[Len(inflight')].outputTokens = failed[1].outputTokens
             /\ inflight'[Len(inflight')].previousChecksum =
                    failed[1].previousChecksum ) ]_vars

\* C6: every request sent carries, per pool, current used minus the cursor total
\* when that is not negative and current used otherwise, and never a negative
\* inputTokens or outputTokens.
C6_IncrementRule ==
    \A i \in DOMAIN inflight :
        /\ inflight[i].inputTokens >= 0
        /\ inflight[i].outputTokens >= 0
        /\ inflight[i].inputTokens =
              IF inflight[i].curIn - inflight[i].lastIn >= 0
              THEN inflight[i].curIn - inflight[i].lastIn
              ELSE inflight[i].curIn
        /\ inflight[i].outputTokens =
              IF inflight[i].curOut - inflight[i].lastOut >= 0
              THEN inflight[i].curOut - inflight[i].lastOut
              ELSE inflight[i].curOut

\* C7: no request is sent when both increments are <= 0 and there is no
\* model-level change (and, for the submit command, no --force).
C7_NothingNewSendsNothing ==
    \A i \in DOMAIN inflight :
        ~ ( /\ inflight[i].inputTokens <= 0
            /\ inflight[i].outputTokens <= 0
            /\ ~inflight[i].hasModelChange
            /\ ~inflight[i].force )

\* C8: every request sent carries as previousChecksum the checksum of the
\* persisted cursor, or 64 zeros when there is no cursor.
C8_ChainLinked ==
    [][ (event' # <<>> /\ event'[1] = "sent")
        => inflight'[Len(inflight')].previousChecksum =
              IF cursor = <<>> THEN ZeroChecksum ELSE cursor[1].checksum ]_vars

\* C10: an auto-submission is acknowledged at least minInterval minutes after
\* the last successful submission.
C10_AutoSubmitSpacing ==
    [][ ( /\ event' # <<>>
          /\ event'[1] = "ok"
          /\ event'[2] \in AutoOrigins
          /\ cursor # <<>> )
        => clock - cursor[1].timestamp >= minInterval ]_vars

\* C11: at most one refresh (the first refreshData, the timer's or an 'r'
\* handler's) is between the start of its fetch and its update of the state.
C11_SingleRefresh ==
    (IF timerPc \in {"starting", "fetching"} THEN 1 ELSE 0) + refreshKeys <= 1

\* C16: a timer refresh whose fetch the endpoint accepted and never answers
\* does not block the refresh loop: the refresh completes and the loop arms
\* its next timer.
C16_RefreshNotBlocked == (timerPc = "hung") ~> (timerPc = "waiting")

\* The only time that has passed is that of a fetch the endpoint never
\* answered: the refresh has ended with the error and the timer is armed again.
C16_Witness ==
    /\ timerPc = "waiting"
    /\ loaded
    /\ ticks = 0
    /\ clock = headersTimeout
    /\ error = <<"fetch failed">>
    /\ snapshot # NullSnapshot

\* C17: a refresh whose fetch failed leaves snapshot and previousSnapshot as they
\* were, sets state.error and starts no submission; a refresh whose fetch
\* succeeded shifts snapshot into previousSnapshot and clears state.error; and
\* nothing but a successful fetch shifts the snapshots or clears the error.
C17_FailedFetchFrame ==
    [][ /\ ( \/ InitialLoad(NullSnapshot)
             \/ TimerFetchDone(NullSnapshot)
             \/ KeyRFetchDone(NullSnapshot) )
           => ( /\ snapshot' = snapshot
                /\ previousSnapshot' = previousSnapshot
                /\ error' # <<>>
                /\ inflight' = inflight
                /\ event' = <<>> )
        /\ \A r \in SnapshotIds :
              (InitialLoad(r) \/ TimerFetchDone(r) \/ KeyRFetchDone(r))
              => ( /\ previousSnapshot' = snapshot
                   /\ snapshot' = r
                   /\ error' = <<>> )
        /\ ( \/ snapshot' # snapshot
             \/ previousSnapshot' # previousSnapshot
             \/ (error # <<>> /\ error' = <<>>) )
           => \E r \in SnapshotIds :
                 InitialLoad(r) \/ TimerFetchDone(r) \/ KeyRFetchDone(r) ]_vars

\* A fetch has failed after an earlier one succeeded, in a dashboard that
\* auto-submits: the error is set and the snapshots are still there.
C17_Witness ==
    /\ error # <<>>
    /\ snapshot # NullSnapshot
    /\ previousSnapshot # NullSnapshot
    /\ rankMode
    /\ authenticated

\* C18: when the auto-submission of a timer refresh is answered, whatever the
\* answer, refreshData goes on (to the usage statistics); a timer refresh
\* whose fetch returned without a submission goes on as well; and when the
\* refreshData of the refresh loop has returned, the next timer refresh is
\* scheduled.
C18_RefreshLoopGoesOn ==
    [][ /\ ( /\ event' # <<>>
             /\ event'[1] \in Outcomes
             /\ event'[2] = "auto_timer" )
           => timerPc' = "stats"
        /\ ( /\ timerPc = "fetching"
             /\ timerPc' # "fetching"
             /\ inflight' = inflight )
           => timerPc' \in {"stats", "waiting"}
        /\ StatsFetched => (timerPc' = "waiting" /\ ~crashed') ]_vars

\* C20: no submit request comes from a refresh: none in flight was started by
\* the timer's or a manual refresh's auto-submission.
C20_NoSubmissionWithoutUserAction ==
    \A i \in DOMAIN inflight : inflight[i].origin \notin AutoOrigins

---------------------------------------------------------------------------
(* Properties of the detection *)

\* C12: whenever detection returns success, on any platform, the returned
\* port is one whose API test with the candidate's CSRF token returned HTTP 200
\* during that detect call, and the returned pid and csrfToken are those of
\* one candidate.
C12_SuccessIsVerified ==
    (detector.pc = "done" /\ detector.result.success) =>
        /\ <<detector.result.pid, detector.result.port, detector.result.csrfToken>> \in detector.tested200
        /\ \E i \in DOMAIN detector.candidates :
               /\ detector.candidates[i].pid = detector.result.pid
               /\ detector.candidates[i].csrfToken = detector.result.csrfToken

\* C13: zero candidates located gives the 'no server found' failure; one
\* candidate or more of which no port passed the API test (or which listens on
\* no port) gives the 'found but no port responds' failure; neither failure is
\* reported in the other situation.
C13_TwoFailures ==
    detector.pc = "done" =>
        LET NotFound == {"No Antigravity Language Server found",
                         "No Antigravity Language Server process found"}
            Unreachable == {"Language Server found but no port responds to API",
                            "Language Server found but cannot find listening port"}
            zeroCandidates == detector.listing \in {"ok", "no_match"} /\ detector.candidates = <<>>
            noneResponds == detector.candidates # <<>> /\ detector.tested200 = {}
        IN /\ zeroCandidates => (~detector.result.success /\ detector.result.error \in NotFound)
           /\ noneResponds => (~detector.result.success /\ detector.result.error \in Unreachable)
           /\ (~detector.result.success /\ detector.result.error \in Unreachable) => noneResponds
           /\ (~detector.result.success /\ detector.result.error \in NotFound) => ~noneResponds

\* C14: when the process-listing command itself fails, the failure reported is
\* none of those reported when the listing runs and matches zero processes.
C14_ListingFailureIsDistinct ==
    (detector.pc = "done" /\ detector.listing \in ListingFailures) =>
        /\ ~detector.result.success
        /\ detector.result.error \notin {"No Antigravity Language Server found",
                                         "No Antigravity Language Server process found"}

---------------------------------------------------------------------------
(* Properties of the estimator *)

\* C15: for the percentages fed to the estimator for one model id, the
\* consumption reported at a step (the latest update of each state) is 0 when
\* the percentage did not fall below the one of the step before for that id
\* (or exceeds it by more than 50), and
\* otherwise the rounded share (previous - current)/100 of the quota of the
\* tier and category, the flash quota for an unknown category, the difference,
\* the quotient and the product each being a double. The step before the
\* first update of a restored estimator is the entry it was restored with.
C15_ReportedConsumption ==
    (estimator.pc = "ready" /\ estimator.calls # <<>>) =>
            LET i == Len(estimator.calls)
                call == estimator.calls[i]
                before == { j \in 1..(i - 1) : estimator.calls[j].modelId = call.modelId }
                restored == estimator.initial.quotaHistory[call.modelId]
            IN (before # {} \/ restored # <<>>) =>
                LET previous == IF before = {} THEN restored[1]
                                ELSE estimator.calls[CHOOSE j \in before : \A k \in before : k <= j].percentage
                    current == call.percentage
                    category == categorizeModel(call.modelId)
                    quota == getTierQuotaConfig(call.tier)[IF category = "unknown"
                                                           THEN "gemini_flash" ELSE category]
                IN call.tokensConsumed =
                       IF current >= previous \/ current > previous + 50 * PercentScale
                       THEN 0
                       ELSE MathRoundDouble(
                                DoubleTimes(
                                    DoubleDividedBy(
                                        DoubleMinus(DoubleOfDecimal(FALSE, NatLimbs(previous), 0 - 3),
                                                    DoubleOfDecimal(FALSE, NatLimbs(current), 0 - 3)),
                                        DoubleOfNat(100)),
                                    DoubleOfNat(quota)))

\* The second update for a claude model, after an update for another model,
\* fell from 60 % to 0.105 % on the Free tier: 17968.5 tokens, reported as
\* 17969
C15_Witness ==
    /\ estimator.pc = "ready"
    /\ Len(estimator.calls) = 3
    /\ estimator.calls[1].modelId = "claude_sonnet_4"
    /\ estimator.calls[1].percentage = 60000
    /\ estimator.calls[2].modelId = "gpt_oss_120b"
    /\ estimator.calls[3].modelId = "claude_sonnet_4"
    /\ estimator.calls[3].percentage = 105
    /\ estimator.calls[3].tier = "Free"
    /\ estimator.calls[3].tokensConsumed = 17969

---------------------------------------------------------------------------
(* Properties of the fetcher *)

\* C19: the fetcher returns the 'Authentication failed' error for status 401
\* or 403, the 'HTTP error' for any other status outside 2xx, the 'Invalid
\* response structure' error for a 2xx response without the top-level status
\* object, a failure for a network exception, and never a success without a
\* snapshot.
C19_ErrorMapping ==
    fetcher.pc = "done" =>
        /\ fetcher.status \in {401, 403} =>
               (~fetcher.result.success /\ fetcher.result.error[1] = "Authentication failed")
        /\ (fetcher.status # 0 /\ ~ResponseOk(fetcher.status) /\ fetcher.status \notin {401, 403}) =>
               (~fetcher.result.success /\ fetcher.result.error[1] = "HTTP error")
        /\ (/\ ResponseOk(fetcher.status)
            /\ fetcher.body.kind \in {"empty", "not_json", "json"}
            /\ ~(fetcher.body.value[1] = "obj" /\ Truthy(fetcher.body.value[2].userStatus))) =>
               (~fetcher.result.success /\ fetcher.result.error = <<"Invalid response structure">>)
        /\ fetcher.body.kind \in {"network_exception", "cut"} => ~fetcher.result.success
        /\ fetcher.result.success => fetcher.result.snapshot # <<>>

---------------------------------------------------------------------------
(* Properties of the checksum secret and of the submit command *)

\* C21: the value of the checksum secret is no text of any submit request
\* (body or headers) and no text of the persisted config store.
C21_SecretStaysLocal ==
    /\ \A i \in DOMAIN inflight : deriveSecret \notin RequestStrings(inflight[i])
    /\ deriveSecret \notin ConfigStrings

\* A request keyed with the secret is in flight while the cursor holds the
\* checksum of an acknowledged one, keyed with the secret as well
C21_Witness ==
    /\ cursor # <<>>
    /\ cursor[1].checksum = <<deriveSecret, cursor[1].checksum[2], cursor[1].checksum[3], cursor[1].checksum[4]>>
    /\ inflight # <<>>
    /\ inflight[1].previousChecksum = cursor[1].checksum
    /\ inflight[1].cumulativeChecksum[1] = deriveSecret

\* C22: the submit command started without --force less than one hour after
\* the timestamp of the persisted cursor returns at once, sends no request and
\* leaves the cursor as it is; started with --force it goes on to collect
\* whatever the elapsed time, and then sends its request.
C22_CooldownUnlessForced ==
    [][ /\ \A f \in BOOLEAN :
               CliStart("command", f) =>
                   IF ~f /\ cursor # <<>> /\ clock - cursor[1].timestamp < MinutesPerHour
                   THEN /\ cli'.pc = "idle"
                        /\ inflight' = inflight
                        /\ nsent' = nsent
                        /\ cursor' = cursor
                   ELSE /\ cli'.pc = "collecting"
                        /\ cli'.force = f
        /\ (cli.pc = "collecting" /\ cli.mode = "command" /\ cli.force /\ cli'.pc # "collecting") =>
               /\ event' = <<"sent", "command">>
               /\ Len(inflight') = Len(inflight) + 1
               /\ cursor' = cursor
      ]_vars

\* A command started with --force, 5 minutes after the cursor it read was
\* written, has sent its request
C22_Witness ==
    /\ cli.pc = "submitting"
    /\ cli.mode = "command"
    /\ cli.force
    /\ cursor # <<>>
    /\ cli.last = cursor
    /\ clock - cursor[1].timestamp < MinutesPerHour
    /\ inflight # <<>>
    /\ clock = 5

---------------------------------------------------------------------------
(* Properties of the scan of the detection *)

\* C24: the port tests are made candidate by candidate in the order of the
\* locator and, for one candidate, in ascending order of its ports; a test
\* that succeeds is the last one made, and its candidate and port are returned.
C24_ScanOrder ==
    detector.pc # "idle" =>
        LET P == detector.probes
        IN /\ \A i, j \in DOMAIN P :
                  i < j => \/ P[i].k < P[j].k
                           \/ (P[i].k = P[j].k /\ P[i].port < P[j].port)
           /\ \A i \in DOMAIN P :
                  P[i].isWorking =>
                      /\ i = Len(P)
                      /\ detector.pc = "done"
                      /\ detector.result.success
                      /\ detector.result.pid = detector.candidates[P[i].k].pid
                      /\ detector.result.port = P[i].port
                      /\ detector.result.csrfToken = P[i].csrfToken

\* The second candidate's second port answered 200 after three failed tests,
\* the ports of the second candidate having been listed in descending order
C24_Witness ==
    /\ detector.pc = "done"
    /\ Len(detector.probes) = 4
    /\ detector.probes[4].isWorking
    /\ detector.probes[4].k = 2
    /\ detector.enumerated[2].listed = <<7002, 7001>>
    /\ detector.result.success
    /\ detector.result.port = 7002

\* The pairs <<candidate, port>> tested so far
ProbedPairs == [i \in DOMAIN detector.probes |-> <<detector.probes[i].k, detector.probes[i].port>>]

RECURSIVE HandedPairs(_)
\* The pairs <<candidate, port>> the prober handed over for the first n candidates
HandedPairs(n) ==
    IF n = 0 THEN <<>>
    ELSE HandedPairs(n - 1) \o
         [j \in DOMAIN detector.enumerated[n].handed |-> <<n, detector.enumerated[n].handed[j]>>]

\* C25: no failure of a port listing or of a port test ends the scan: the
\* tests made are the ports handed over, in order and without a gap, every
\* candidate before the current one is tested completely, and a detection that
\* ends without a successful test has listed every candidate and tested every
\* port.
C25_ScanGoesOn ==
    detector.pc \notin {"idle", "listing"} =>
        LET full == HandedPairs(Len(detector.enumerated))
            n == Len(detector.probes)
        IN /\ n <= Len(full) /\ ProbedPairs = SubSeq(full, 1, n)
           /\ detector.pc \in {"ports", "lsof"} => ProbedPairs = full
           /\ (detector.pc = "done" /\ ~detector.result.success /\ detector.listing = "ok"
                  /\ detector.candidates # <<>>) =>
                  /\ Len(detector.enumerated) = Len(detector.candidates)
                  /\ ProbedPairs = full

\* The port listing of the first candidate failed, the two ports of the
\* second were tested: one refused the connection, one timed out
C25_Witness ==
    /\ detector.pc = "done"
    /\ ~detector.result.success
    /\ Len(detector.enumerated) = 2
    /\ detector.enumerated[1].cmdFailed
    /\ Len(detector.probes) = 2
    /\ detector.probes[1].outcome.kind = "refused"
    /\ detector.probes[2].outcome.kind = "timeout"

\* C26: a port test gives true exactly when the endpoint answered with status
\* 200; any other status, a refused connection and a timeout give false.
C26_Only200 ==
    detector.pc # "idle" =>
        \A i \in DOMAIN detector.probes :
            detector.probes[i].isWorking <=>
                (detector.probes[i].outcome.kind = "response"
                    /\ detector.probes[i].outcome.status = 200)

\* A port answered 204 and was not taken, the next one answered 200
C26_Witness ==
    /\ detector.pc = "done"
    /\ Len(detector.probes) = 2
    /\ detector.probes[1].outcome = [kind |-> "response", status |-> 204]
    /\ ~detector.probes[1].isWorking
    /\ detector.probes[2].outcome = [kind |-> "response", status |-> 200]
    /\ detector.probes[2].isWorking

\* C27: a detection that was started ends with a result, whatever the ports
\* do, a port that never answers included.
C27_DetectionTerminates == <>(detector.pc = "done")

\* Every port of two candidates accepted the connection and never answered
C27_Witness ==
    /\ detector.pc = "done"
    /\ Len(detector.probes) = 4
    /\ \A i \in DOMAIN detector.probes : detector.probes[i].outcome.kind = "timeout"

\* C28: on every platform the ports handed to the scan for a candidate are
\* the listening ports the OS reported for it, each once, in ascending order.
C28_PortsOnceAscending ==
    detector.pc \notin {"idle", "listing"} =>
        \A n \in DOMAIN detector.enumerated :
            ~detector.enumerated[n].cmdFailed =>
                detector.enumerated[n].handed = sortAscending(RangeOf(detector.enumerated[n].listed))

---------------------------------------------------------------------------
(* Properties of the estimator's history *)

\* C29: the update that feeds a model id to the estimator for the first time
\* (the estimator was not restored with an entry for it either) reports zero
\* consumption, whatever the remaining percentage.
C29_NoHistoryNoConsumption ==
    estimator.pc = "ready" =>
        \A i \in DOMAIN estimator.calls :
            ( /\ estimator.initial.quotaHistory[estimator.calls[i].modelId] = <<>>
              /\ \A j \in 1..(i - 1) : estimator.calls[j].modelId # estimator.calls[i].modelId ) =>
                estimator.calls[i].tokensConsumed = 0

\* Three models were each seen for the first time, the first at 0 % and the
\* second at 60 %; nothing was counted for any of them
C29_Witness ==
    /\ estimator.pc = "ready"
    /\ estimator.initial.quotaHistory = [id \in ModelIds |-> <<>>]
    /\ Len(estimator.calls) = 3
    /\ estimator.calls[1].modelId = "claude_sonnet_4"
    /\ estimator.calls[1].percentage = 0
    /\ estimator.calls[1].tokensConsumed = 0
    /\ estimator.calls[2].modelId = "gemini_3_flash"
    /\ estimator.calls[2].percentage = 60000
    /\ estimator.calls[2].tokensConsumed = 0
    /\ estimator.calls[3].modelId = "gpt_oss_120b"
    /\ estimator.accumulatedUsage.total = 0

\* C30: the history holds, for every model id fed so far, the percentage of
\* its latest update, whether or not that update counted consumption; a model
\* id once in the history stays in it (an id not fed yet has the entry the
\* estimator began with).
C30_StateAdvances ==
    estimator.pc = "ready" =>
        \A id \in ModelIds :
            LET mine == { i \in DOMAIN estimator.calls : estimator.calls[i].modelId = id }
            IN IF mine = {}
               THEN estimator.quotaHistory[id] = estimator.initial.quotaHistory[id]
               ELSE LET latest == CHOOSE i \in mine : \A j \in mine : j <= i
                    IN estimator.quotaHistory[id] = <<estimator.calls[latest].percentage>>

\* A model went from 0 % up to 100 % (a reset-like jump) and stayed there:
\* nothing was counted and the history holds 100 %
C30_Witness ==
    /\ estimator.pc = "ready"
    /\ Len(estimator.calls) = 3
    /\ \A i \in 1..3 : estimator.calls[i].modelId = "claude_sonnet_4"
    /\ estimator.calls[1].percentage = 0
    /\ estimator.calls[2].percentage = 100000
    /\ estimator.calls[3].percentage = 100000
    /\ estimator.calls[3].tokensConsumed = 0
    /\ estimator.quotaHistory["claude_sonnet_4"] = <<100000>>

---------------------------------------------------------------------------
(* Properties of the dashboard's server handle *)

\* C23: when fetches fail because the language server has restarted on
\* another endpoint, the dashboard can discard its handle and take the
\* endpoint the server now listens on.
C23_RedetectsAfterFailures ==
    (server.handle # server.actual /\ error # <<>> /\ timerPc = "waiting") =>
        ENABLED (DashboardStep /\ server'.handle = server.actual)

---------------------------------------------------------------------------
(* Properties of the estimator's accumulated usage *)

\* C31: consumption of a model of category 'unknown' changes no counter, so
\* the accumulated total of a fresh estimator is the sum of the gemini_flash,
\* gemini_pro and claude counters.
C31_TotalIsSumOfCategories ==
    (estimator.pc = "ready" /\ estimator.initial = TokenEstimator(<<>>).initial) =>
        estimator.accumulatedUsage.total =
            estimator.accumulatedUsage.gemini_flash + estimator.accumulatedUsage.gemini_pro
                + estimator.accumulatedUsage.claude

\* C32: in an update no accumulated counter decreases, and a counter changes
\* only when the percentage fed for the model is lower than the one stored for
\* it.
C32_CountersGrowOnDecrease ==
    [][ (estimator.pc = "ready" /\ estimator'.pc = "ready") =>
            LET call == estimator'.calls[Len(estimator'.calls)]
                stored == estimator.quotaHistory[call.modelId]
            IN /\ \A k \in DOMAIN estimator.accumulatedUsage :
                      estimator'.accumulatedUsage[k] >= estimator.accumulatedUsage[k]
               /\ estimator'.accumulatedUsage # estimator.accumulatedUsage =>
                      (stored # <<>> /\ call.percentage < stored[1])
      ]_estimator

\* A claude model fell from 100 % to 60 %, rose back to 100 %: the counters
\* hold what the fall counted
C32_Witness ==
    /\ estimator.pc = "ready"
    /\ Len(estimator.calls) = 3
    /\ \A i \in 1..3 : estimator.calls[i].modelId = "claude_sonnet_4" /\ estimator.calls[i].tier = "Free"
    /\ estimator.calls[1].percentage = 100000
    /\ estimator.calls[2].percentage = 60000
    /\ estimator.calls[3].percentage = 100000
    /\ estimator.accumulatedUsage.claude = 12000
    /\ estimator.accumulatedUsage.total = 12000

---------------------------------------------------------------------------
(* Properties of parseResponse *)

\* C33: every model quota of every snapshot has a remaining percentage
\* between 0 and 100, whatever remaining fraction the reply carries.
C33_PercentageWithinRange ==
    (fetcher.pc = "done" /\ fetcher.result.success) =>
        \A i \in 1..Len(fetcher.result.snapshot.models) :
            LET p == fetcher.result.snapshot.models[i].remainingPercentage
            IN ~p.nan /\ ~DoubleLess(p, DoubleZero(FALSE)) /\ ~DoubleLess(DoubleOfNat(100), p)

\* C34: no snapshot returned as a success holds NaN as a credit amount or a
\* percentage; a field that cannot be parsed counts as zero.
C34_NoNaNInSnapshot ==
    (fetcher.pc = "done" /\ fetcher.result.success) =>
        LET s == fetcher.result.snapshot
            clean(c) == c = <<>> \/ (~c[1].available.nan /\ ~c[1].monthly.nan
                                       /\ ~c[1].usedPercentage.nan
                                       /\ ~c[1].remainingPercentage.nan)
        IN /\ clean(s.promptCredits)
           /\ clean(s.flowCredits)
           /\ s.tokenUsage = <<>> \/ (~s.tokenUsage[1].totalAvailable.nan
                                        /\ ~s.tokenUsage[1].totalMonthly.nan
                                        /\ ~s.tokenUsage[1].overallRemainingPercentage.nan)

---------------------------------------------------------------------------
(* Properties of authentication *)

\* C35: no submit request is sent while no auth token is stored, also when
\* the user logs out while the dashboard or a submit command runs.
C35_NoSendWithoutToken ==
    [][ nsent' > nsent => isAuthenticated(config) ]_allVars

\* C39: logout changes only the auth record and the cached HTTP clients: the
\* cursor, the installation id, the API and web URLs and every other part of
\* the state stay as they were; a request made through the authenticated
\* client while logged out carries no bearer token.
C39_LogoutFrame ==
    [][ /\ (\E own \in BOOLEAN : Logout(own)) =>
              /\ cursor' = cursor
              /\ config'.installationId = config.installationId
              /\ config'.apiUrl = config.apiUrl
              /\ config'.webUrl = config.webUrl
              /\ config'.auth = AuthEmpty
              /\ http'.sent = http.sent
              /\ UNCHANGED <<rankMode, loaded, snapshot, previousSnapshot, currentView,
                             lastSubmitTime, timerPc, refreshKeys, inflight, cli, clock,
                             ticks, nsent, ackedInput, ackedOutput, resetSeen, failed,
                             error, leaderboardGets, statsKeys, crashed, detector,
                             estimator, fetcher, server>>
        /\ (~isAuthenticated(config) /\ (\E p \in AuthPaths : AuthRequest(p))) =>
              http'.sent[Len(http'.sent)].authorization = <<>>
      ]_allVars

\* Another process logged the user out while this one kept its authenticated
\* client; its next request went out without a bearer token, the cursor and
\* the installation id still stored
C39_Witness ==
    /\ ~isAuthenticated(config)
    /\ cursor = LastSubmissionStored
    /\ config.installationId = "agy-1700000000000-k3x9q2ab"
    /\ http.authClient # <<>>
    /\ Len(http.sent) = 2
    /\ http.sent[1].authorization = <<"Bearer", "jwtA">>
    /\ http.sent[2].authorization = <<>>
    /\ http.sent[2].path = "/agy/usage/submit"

---------------------------------------------------------------------------
(* Properties of the auto-submission *)

\* C36: with auto-refresh, logged in and in rank mode, a credit decrease that
\* a fetch observed (the snapshot shows fewer available credits than the one
\* before) is eventually followed by a successful submission that covers it:
\* the cursor holds the usage of that snapshot.
C36_DecreaseEventuallySubmitted ==
    \A s \in SnapshotIds :
        (/\ snapshot = s
         /\ previousSnapshot # NullSnapshot
         /\ usageChanged(previousSnapshot, s))
        ~> (/\ cursor # <<>>
            /\ cursor[1].totalUsedInput = currentUsedPrompt(s)
            /\ cursor[1].totalUsedOutput = currentUsedFlow(s))

---------------------------------------------------------------------------
(* Properties of the increment and of the per-model breakdown *)

\* C37: in a month without a credit reset, no request is computed by the
\* reset branch (the whole current used value of a pool taken as the
\* increment), also when the model-based estimate shrinks because a quota
\* window refilled: usage an acknowledged submission covered is not sent again.
C37_ResetBranchOnlyOnReset ==
    \A i \in DOMAIN inflight : ~inflight[i].reset

\* C38: in every payload of the dashboard the models' inputTokens sum to at
\* most the payload's inputTokens, the models' outputTokens to at most the
\* payload's outputTokens, and only models below 100 % remaining appear.
C38_BreakdownWithinIncrement ==
    \A i \in DOMAIN inflight :
        LET e == inflight[i]
            breakdown == modelBreakdown(e.snap, e.inputTokens, e.outputTokens)
        IN e.origin \in DashboardOrigins =>
              /\ SumSeq([k \in DOMAIN breakdown |-> breakdown[k].inputTokens]) <= e.inputTokens
              /\ SumSeq([k \in DOMAIN breakdown |-> breakdown[k].outputTokens]) <= e.outputTokens
              /\ Len(breakdown) = CountActive(SnapshotTable[e.snap].models)
              /\ \A k \in DOMAIN breakdown : breakdown[k].weight > 0

====
